---- MODULE Spec2Model ----
(***************************************************************************)
(* A model of the chip8 interpreter: Memory (mem/mem.rs), Cpu (cpu/cpu.rs), *)
(* Display (display/display.rs), Timer (timer/timer.rs) and the main loop   *)
(* (main.rs).  Structs are records with the fields of the source; a method  *)
(* is an operator from the struct's value (and its arguments) to the new    *)
(* value; a Result or a panic is the "res" field of what an operator        *)
(* returns.                                                                 *)
(***************************************************************************)
EXTENDS Integers, Sequences, FiniteSets, TLC

VARIABLES
    cpu,     \* struct Cpu: [pc, i, v, stack, pressed]
    mem,     \* Option of struct Memory's field mem: [0..MEM_SIZE-1 -> byte]
    disp,    \* Option of struct Display: [buf, keys_state]
    timer,   \* Option of struct Timer: [delay, sound]
    audio,   \* the Audio device of the Timer: "started", "stopped", or None
    status,  \* the process: "running", "exited" (exit(1)), "panicked"
    log,     \* history: the operations done so far, each with the state before it
    count,   \* history: [cycles, ticks, events], the steps each agent has taken
    threads  \* the threads step by step: where each is, the mutexes it holds,
             \* the host's events not yet received, the frames pushed

vars == <<cpu, mem, disp, timer, audio, status, log, count, threads>>

\* An Option is a sequence of at most one value: an object the caller did not
\* construct, or does not pass to decode, is NoneOpt.
NoneOpt == << >>
Some(x) == << x >>
IsSome(o) == Len(o) = 1
Unwrap(o) == o[1]

\* The Audio device of a Timer built for a test.
None == "None"

\* The threads: main runs the Cpu, Timer::new and Display::new each spawn one.
Agents == {"cpu", "timer", "display"}

\* The threads before any of them has taken a step: main between two handlers,
\* the other two in their sleep, no mutex held, no host event sent.
ThreadsNew ==
    [at |-> [a \in Agents |-> IF a = "cpu" THEN "idle" ELSE "sleep"],
     held |-> [a \in Agents |-> << >>],
     pending |-> << >>,
     event |-> NoneOpt,
     frames |-> 0,
     atpush |-> 0,
     applied |-> 0]

(***************************************************************************)
(* Program constants.                                                      *)
(***************************************************************************)
MEM_SIZE == 4096
PROGRAM_ADDRESS == 512
FONT_ADDRESS == 80
FONT_HEIGHT == 5
WIDTH == 64
HEIGHT == 32
ON_PIXEL == 255
OFF_PIXEL == 0

(***************************************************************************)
(* Bounds of the model.                                                    *)
(***************************************************************************)
MaxCycles == 6   \* fetch/decode cycles of the main loop in one behaviour
MaxEvents == 4   \* keyboard events the display thread handles
MaxTicks == 1    \* iterations of the timer thread in the main loop's model
MaxDraws == 2    \* draw/clear calls on a Display on its own
MaxTimerOps == 4 \* set_delay/set_sound/one_iteration calls on a Timer on its own
MaxFetches == 3  \* fetch calls on a Cpu with a Memory and nothing else
MaxLoads == 2    \* load_program calls on a Memory on its own
MaxPending == 2  \* host events sent to the window and not yet received
MaxFrames == 2   \* passes of the display thread's loop
MaxCalls == 20   \* 2nnn/00EE instructions decoded in a row on one Cpu
MaxKeyOps == 2   \* set_key_state calls on a Display on its own
MaxMemOps == 2   \* Fx55/Fx65 instructions decoded in a row on one Cpu and Memory
MaxSprites == 2  \* Dxyn instructions decoded in a row on one Cpu, Memory and Display

(***************************************************************************)
(* Bits of fixed-width integers.                                           *)
(***************************************************************************)
Byte == 0..255

Pow2(n) == 2 ^ n

\* a >> n
Shr(a, n) == a \div Pow2(n)

\* bit n of a
Bit(a, n) == Shr(a, n) % 2

RECURSIVE BitOp(_, _, _, _)
\* The bitwise combination of a and b over their low n bits, f the bit's table.
BitOp(f, a, b, n) ==
    IF n = 0 THEN 0
    ELSE f[(a % 2) + 1][(b % 2) + 1] + 2 * BitOp(f, a \div 2, b \div 2, n - 1)

OrBits(a, b) == BitOp(<<<<0, 1>>, <<1, 1>>>>, a, b, 8)
AndBits(a, b) == BitOp(<<<<0, 0>>, <<0, 1>>>>, a, b, 8)
XorBits(a, b) == BitOp(<<<<0, 1>>, <<1, 0>>>>, a, b, 8)

(***************************************************************************)
(* Memory (mem/mem.rs).                                                    *)
(***************************************************************************)
FONT_ARRAY ==
    << 240, 144, 144, 144, 240,   \* 0
       32, 96, 32, 32, 112,       \* 1
       240, 16, 240, 128, 240,    \* 2
       240, 16, 240, 16, 240,     \* 3
       144, 144, 240, 16, 16,     \* 4
       240, 128, 240, 16, 240,    \* 5
       240, 128, 240, 144, 240,   \* 6
       240, 16, 32, 64, 64,       \* 7
       240, 144, 240, 144, 240,   \* 8
       240, 144, 240, 16, 240,    \* 9
       240, 144, 240, 144, 144,   \* A
       224, 144, 224, 144, 224,   \* B
       240, 128, 128, 128, 240,   \* C
       224, 144, 144, 144, 224,   \* D
       240, 128, 240, 128, 240,   \* E
       240, 128, 240, 128, 128 >> \* F

\* load_font: FONT_ARRAY[i] (0-based) goes to mem[FONT_ADDRESS + i].
load_font(m) ==
    [a \in DOMAIN m |->
        IF a >= FONT_ADDRESS /\ a < FONT_ADDRESS + Len(FONT_ARRAY)
        THEN FONT_ARRAY[a - FONT_ADDRESS + 1]
        ELSE m[a]]

\* Memory::new: all zero, then the font.
MemoryNew == load_font([a \in 0..(MEM_SIZE - 1) |-> 0])

\* A load that begins at address 0 rather than at PROGRAM_ADDRESS.
load_program_at_zero(m, program) ==
    IF Len(program) > MEM_SIZE - PROGRAM_ADDRESS
    THEN [res |-> "Err", mem |-> m]
    ELSE [res |-> "Ok",
          mem |-> [a \in DOMAIN m |->
                      IF a < Len(program) THEN program[a + 1] ELSE m[a]]]

\* A load whose size test refuses a program that fills the memory exactly.
load_program_refuse_full(m, program) ==
    IF Len(program) >= MEM_SIZE - PROGRAM_ADDRESS
    THEN [res |-> "Err", mem |-> m]
    ELSE [res |-> "Ok",
          mem |-> [a \in DOMAIN m |->
                      IF a >= PROGRAM_ADDRESS /\ a < PROGRAM_ADDRESS + Len(program)
                      THEN program[a - PROGRAM_ADDRESS + 1]
                      ELSE m[a]]]

\* Memory::load_program: program is a sequence of bytes.
load_program(m, program) ==
    IF Len(program) > MEM_SIZE - PROGRAM_ADDRESS
    THEN [res |-> "Err", mem |-> m]
    ELSE [res |-> "Ok",
          mem |-> [a \in DOMAIN m |->
                      IF a >= PROGRAM_ADDRESS /\ a < PROGRAM_ADDRESS + Len(program)
                      THEN program[a - PROGRAM_ADDRESS + 1]
                      ELSE m[a]]]

\* Memory::get_font_addr
get_font_addr(font) == FONT_ADDRESS + FONT_HEIGHT * (font % 16)

\* Memory::read
read(m, addr) ==
    IF addr >= MEM_SIZE
    THEN [res |-> "Err", val |-> 0]
    ELSE [res |-> "Ok", val |-> m[addr]]

(***************************************************************************)
(* Timer (timer/timer.rs).  The Audio device is only told to start or stop. *)
(***************************************************************************)
\* Timer::new: both counters 0.
TimerNew == [delay |-> 0, sound |-> 0]

Timer_set_delay(t, val) == [t EXCEPT !.delay = val]

Timer_get_delay(t) == t.delay

Timer_set_sound(t, val) == [t EXCEPT !.sound = val]

Timer_get_sound(t) == t.sound

\* A decrement that wraps below 0, as u8::wrapping_sub(1) would.
Countdown_wrapping(c) == IF c > 0 THEN c - 1 ELSE 255

\* The decrement of one counter in Timer::one_iteration.
Countdown(c) == IF c > 0 THEN c - 1 ELSE c

\* An iteration that tests the sound counter for the Audio device before it
\* takes 1 from it.
one_iteration_test_first(t, a) ==
    [timer |-> [delay |-> Countdown(t.delay), sound |-> Countdown(t.sound)],
     audio |-> IF a = None THEN None
               ELSE IF t.sound > 0 THEN "started" ELSE "stopped"]

\* Timer::one_iteration: the counters after it, and the Audio device after it
\* (a is None when the Timer was built for a test, and stays None).
one_iteration(t, a) ==
    LET delay == Countdown(t.delay)
        sound == Countdown(t.sound)
    IN  [timer |-> [delay |-> delay, sound |-> sound],
         audio |-> IF a = None THEN None
                   ELSE IF sound > 0 THEN "started" ELSE "stopped"]

(***************************************************************************)
(* Cpu (cpu/cpu.rs): the handlers of decode that touch the Cpu alone.      *)
(***************************************************************************)
\* Cpu::new.  stack is a sequence, its back the last element; pressed is a
\* HashMap, a function on the keys it holds.
CpuNew ==
    [pc |-> PROGRAM_ADDRESS, i |-> 0, v |-> [r \in 0..15 |-> 0],
     stack |-> << >>, pressed |-> << >>]

\* The fields of an instruction: (instr >> 8) & 0xF, (instr >> 4) & 0xF,
\* instr & 0xF, instr & 0xFF, instr & 0xFFF.
XInd(instr) == Shr(instr, 8) % 16
YInd(instr) == Shr(instr, 4) % 16
LowNibble(instr) == instr % 16
LowByte(instr) == instr % 256
Addr(instr) == instr % 4096

set_i(c, instr) == [c EXCEPT !.i = Addr(instr)]

set_v(c, instr) == [c EXCEPT !.v[XInd(instr)] = LowByte(instr)]

\* An addition that records its carry in VF, as 8xy4 does.
add_v_carry(c, instr) ==
    [c EXCEPT !.v[15] = IF c.v[XInd(instr)] + LowByte(instr) > 255 THEN 1 ELSE 0,
              !.v[XInd(instr)] = (c.v[XInd(instr)] + LowByte(instr)) % 256]

\* (old_reg + val) as u8; VF is left alone.
add_v(c, instr) ==
    [c EXCEPT !.v[XInd(instr)] = (c.v[XInd(instr)] + LowByte(instr)) % 256]

\* A jump that takes the whole instruction for the address, the opcode nibble
\* with it.
handle_jump_unmasked(c, instr) == [c EXCEPT !.pc = instr]

handle_jump(c, instr) == [c EXCEPT !.pc = Addr(instr)]

\* push_back(pc), then pc = addr.
subroutine(c, instr) ==
    [c EXCEPT !.stack = Append(c.stack, c.pc), !.pc = Addr(instr)]

\* A return that takes the oldest address, as pop_front would.
return_routine_pop_front(c) ==
    IF Len(c.stack) > 0
    THEN [res |-> "Ok", cpu |-> [c EXCEPT !.pc = c.stack[1], !.stack = Tail(c.stack)]]
    ELSE [res |-> "Panic", cpu |-> c]

\* A return that does nothing on an empty stack and lets the program go on.
return_routine_skip_empty(c) ==
    IF Len(c.stack) > 0
    THEN [res |-> "Ok",
          cpu |-> [c EXCEPT !.pc = c.stack[Len(c.stack)],
                            !.stack = SubSeq(c.stack, 1, Len(c.stack) - 1)]]
    ELSE [res |-> "Ok", cpu |-> c]

\* pop_back into pc; a panic on an empty stack.
return_routine(c) ==
    IF Len(c.stack) > 0
    THEN [res |-> "Ok",
          cpu |-> [c EXCEPT !.pc = c.stack[Len(c.stack)],
                            !.stack = SubSeq(c.stack, 1, Len(c.stack) - 1)]]
    ELSE [res |-> "Panic", cpu |-> c]

skip_vx_equal(c, instr) ==
    IF c.v[XInd(instr)] = LowByte(instr) THEN [c EXCEPT !.pc = c.pc + 2] ELSE c

\* A 4xnn that tests for equality, as 3xnn does.
skip_vx_ne_as_equal(c, instr) ==
    IF c.v[XInd(instr)] = LowByte(instr) THEN [c EXCEPT !.pc = c.pc + 2] ELSE c

skip_vx_ne(c, instr) ==
    IF c.v[XInd(instr)] /= LowByte(instr) THEN [c EXCEPT !.pc = c.pc + 2] ELSE c

skip_vx_vy_equal(c, instr) ==
    IF c.v[XInd(instr)] = c.v[YInd(instr)] THEN [c EXCEPT !.pc = c.pc + 2] ELSE c

skip_vx_vy_not_equal(c, instr) ==
    IF c.v[XInd(instr)] /= c.v[YInd(instr)] THEN [c EXCEPT !.pc = c.pc + 2] ELSE c

set_vx_to_vy(c, instr) == [c EXCEPT !.v[XInd(instr)] = c.v[YInd(instr)]]

\* u8::wrapping_sub
wrapping_sub(a, b) == (a - b + 256) % 256

\* VF is written first, then v[x]: with x = 0xF the result overwrites the flag.
arith_vx_minus_vy(c, instr) ==
    LET vx == c.v[XInd(instr)]
        vy == c.v[YInd(instr)]
        flagged == [c EXCEPT !.v[15] = IF vx > vy THEN 1 ELSE 0]
    IN  [flagged EXCEPT !.v[XInd(instr)] = wrapping_sub(vx, vy)]

arith_vy_minus_vx(c, instr) ==
    LET vx == c.v[XInd(instr)]
        vy == c.v[YInd(instr)]
        flagged == [c EXCEPT !.v[15] = IF vy > vx THEN 1 ELSE 0]
    IN  [flagged EXCEPT !.v[XInd(instr)] = wrapping_sub(vy, vx)]

logic_vx_or_vy(c, instr) ==
    [c EXCEPT !.v[XInd(instr)] = OrBits(c.v[XInd(instr)], c.v[YInd(instr)])]

logic_vx_and_vy(c, instr) ==
    [c EXCEPT !.v[XInd(instr)] = AndBits(c.v[XInd(instr)], c.v[YInd(instr)])]

logic_vx_xor_vy(c, instr) ==
    [c EXCEPT !.v[XInd(instr)] = XorBits(c.v[XInd(instr)], c.v[YInd(instr)])]

\* VF = (vx & 0x80) >> 7, then v[x] = vx << 1 within 8 bits.
left_shift(c, instr) ==
    LET vx == c.v[XInd(instr)]
        flagged == [c EXCEPT !.v[15] = IF Bit(vx, 7) = 1 THEN 1 ELSE 0]
    IN  [flagged EXCEPT !.v[XInd(instr)] = (vx * 2) % 256]

\* VF = vx & 1, then v[x] = vx >> 1.
right_shift(c, instr) ==
    LET vx == c.v[XInd(instr)]
        flagged == [c EXCEPT !.v[15] = IF Bit(vx, 0) = 1 THEN 1 ELSE 0]
    IN  [flagged EXCEPT !.v[XInd(instr)] = Shr(vx, 1)]

\* A handler that has an arm for 8xy4 too: Vx = Vx + Vy.
handle_logic_arith_with_add(c, instr) ==
    LET n == LowNibble(instr)
    IN  IF n = 0 THEN [res |-> "Ok", cpu |-> set_vx_to_vy(c, instr)]
        ELSE IF n = 4
        THEN [res |-> "Ok",
              cpu |-> [c EXCEPT !.v[XInd(instr)] =
                          (c.v[XInd(instr)] + c.v[YInd(instr)]) % 256]]
        ELSE IF n = 5 THEN [res |-> "Ok", cpu |-> arith_vx_minus_vy(c, instr)]
        ELSE IF n = 6 THEN [res |-> "Ok", cpu |-> right_shift(c, instr)]
        ELSE IF n = 7 THEN [res |-> "Ok", cpu |-> arith_vy_minus_vx(c, instr)]
        ELSE IF n = 1 THEN [res |-> "Ok", cpu |-> logic_vx_or_vy(c, instr)]
        ELSE IF n = 2 THEN [res |-> "Ok", cpu |-> logic_vx_and_vy(c, instr)]
        ELSE IF n = 3 THEN [res |-> "Ok", cpu |-> logic_vx_xor_vy(c, instr)]
        ELSE IF n = 14 THEN [res |-> "Ok", cpu |-> left_shift(c, instr)]
        ELSE [res |-> "Err", cpu |-> c]

handle_logic_arith(c, instr) ==
    LET n == LowNibble(instr)
    IN  IF n = 0 THEN [res |-> "Ok", cpu |-> set_vx_to_vy(c, instr)]
        ELSE IF n = 5 THEN [res |-> "Ok", cpu |-> arith_vx_minus_vy(c, instr)]
        ELSE IF n = 6 THEN [res |-> "Ok", cpu |-> right_shift(c, instr)]
        ELSE IF n = 7 THEN [res |-> "Ok", cpu |-> arith_vy_minus_vx(c, instr)]
        ELSE IF n = 1 THEN [res |-> "Ok", cpu |-> logic_vx_or_vy(c, instr)]
        ELSE IF n = 2 THEN [res |-> "Ok", cpu |-> logic_vx_and_vy(c, instr)]
        ELSE IF n = 3 THEN [res |-> "Ok", cpu |-> logic_vx_xor_vy(c, instr)]
        ELSE IF n = 14 THEN [res |-> "Ok", cpu |-> left_shift(c, instr)]
        ELSE [res |-> "Err", cpu |-> c]

\* rnd is the byte rand::random::<u8>() returns.
random(c, instr, rnd) ==
    [c EXCEPT !.v[XInd(instr)] = AndBits(rnd, LowByte(instr))]

\* An Fx1E that writes the flag either way: 1 on overflow, 0 without.
increment_i_clear_flag(c, instr) ==
    LET result == c.i + c.v[XInd(instr)]
        flagged == [c EXCEPT !.v[15] = IF result >= 4096 THEN 1 ELSE 0]
    IN  [flagged EXCEPT !.i = result % 65536]

\* Fx1E: VF is set when the sum leaves the 4096 addresses, and never cleared.
increment_i(c, instr) ==
    LET result == c.i + c.v[XInd(instr)]
        flagged == IF result >= 4096 THEN [c EXCEPT !.v[15] = 1] ELSE c
    IN  [flagged EXCEPT !.i = result % 65536]

get_font_char(c, instr) == c.v[XInd(instr)] % 16

font_character(c, instr) == [c EXCEPT !.i = get_font_addr(get_font_char(c, instr))]

(***************************************************************************)
(* Display (display/display.rs).                                           *)
(***************************************************************************)
\* Display::new: every pixel off, no key ever touched.
DisplayNew ==
    [buf |-> [p \in 0..(WIDTH * HEIGHT - 1) |-> OFF_PIXEL], keys_state |-> << >>]

\* The scancodes of the table of scancode_to_key.
Scancodes == {2, 3, 4, 5, 16, 17, 18, 19, 30, 31, 32, 33, 44, 45, 46, 47}

scancode_to_key(scancode) ==
    IF scancode \in Scancodes
    THEN [res |-> "Ok",
          key |-> CASE scancode = 2 -> 1   [] scancode = 3 -> 2
                    [] scancode = 4 -> 3   [] scancode = 5 -> 12
                    [] scancode = 16 -> 4  [] scancode = 17 -> 5
                    [] scancode = 18 -> 6  [] scancode = 19 -> 13
                    [] scancode = 30 -> 7  [] scancode = 31 -> 8
                    [] scancode = 32 -> 9  [] scancode = 33 -> 14
                    [] scancode = 44 -> 10 [] scancode = 45 -> 0
                    [] scancode = 46 -> 11 [] scancode = 47 -> 15]
    ELSE [res |-> "Err", key |-> 0]

\* HashMap::insert
Insert(map, k, val) ==
    [j \in DOMAIN map \cup {k} |-> IF j = k THEN val ELSE map[j]]

\* A set_key_state that files an unknown scancode under key 0.
set_key_state_store_unknown(d, scan_code, state) ==
    LET key_code == scancode_to_key(scan_code)
    IN  [res |-> key_code.res,
         disp |-> [d EXCEPT !.keys_state =
                      Insert(d.keys_state, key_code.key, state = "Pressed")]]

\* Display::set_key_state: state is "Pressed" or "Released".
set_key_state(d, scan_code, state) ==
    LET key_code == scancode_to_key(scan_code)
    IN  IF key_code.res = "Err" THEN [res |-> "Err", disp |-> d]
        ELSE [res |-> "Ok",
              disp |-> [d EXCEPT !.keys_state =
                           Insert(d.keys_state, key_code.key, state = "Pressed")]]

\* A get_key_state that reads a key never touched as pressed.
get_key_state_untouched_pressed(d, key) ==
    IF key > 15 THEN [res |-> "Err", val |-> FALSE]
    ELSE IF key \in DOMAIN d.keys_state
         THEN [res |-> "Ok", val |-> d.keys_state[key]]
         ELSE [res |-> "Ok", val |-> TRUE]

\* Display::get_key_state
get_key_state(d, key) ==
    IF key > 15 THEN [res |-> "Err", val |-> FALSE]
    ELSE IF key \in DOMAIN d.keys_state
         THEN [res |-> "Ok", val |-> d.keys_state[key]]
         ELSE [res |-> "Ok", val |-> FALSE]

\* Display::clear_buf
clear_buf(buf) == [p \in DOMAIN buf |-> 0]

\* Display::clear
clear(d) == [d EXCEPT !.buf = clear_buf(d.buf)]

\* A pixel that is set rather than toggled: an ON pixel stays ON.
TogglePixel_set(st, buf_ind) ==
    IF st.buf[buf_ind] = ON_PIXEL
    THEN [buf |-> st.buf, vf |-> 1]
    ELSE [buf |-> [st.buf EXCEPT ![buf_ind] = ON_PIXEL], vf |-> st.vf]

\* A toggle with the collision test inverted: the flag is raised when a pixel
\* goes ON.
TogglePixel_flag_on(st, buf_ind) ==
    IF st.buf[buf_ind] = ON_PIXEL
    THEN [buf |-> [st.buf EXCEPT ![buf_ind] = OFF_PIXEL], vf |-> st.vf]
    ELSE [buf |-> [st.buf EXCEPT ![buf_ind] = ON_PIXEL], vf |-> 1]

\* One pixel of update_buf_sprite: st is [buf, vf].
TogglePixel(st, buf_ind) ==
    IF st.buf[buf_ind] = ON_PIXEL
    THEN [buf |-> [st.buf EXCEPT ![buf_ind] = OFF_PIXEL], vf |-> 1]
    ELSE [buf |-> [st.buf EXCEPT ![buf_ind] = ON_PIXEL], vf |-> st.vf]

RECURSIVE BitLoop_no_break(_, _, _, _, _)
\* The inner loop without its break at the right edge: a column past 63 runs on
\* into the next row of the buffer, and past the last row to its start.
BitLoop_no_break(st, x, cur_y, cur_byte, x_ind) ==
    IF x_ind >= 8 THEN st
    ELSE IF Bit(cur_byte, 7 - x_ind) = 0
         THEN BitLoop_no_break(st, x, cur_y, cur_byte, x_ind + 1)
         ELSE BitLoop_no_break(
                  TogglePixel(st, (WIDTH * cur_y + x + x_ind) % (WIDTH * HEIGHT)),
                  x, cur_y, cur_byte, x_ind + 1)

RECURSIVE BitLoop(_, _, _, _, _)
\* The inner loop of update_buf_sprite from x_ind on: for x_ind in 0..8, with its
\* break at the right edge and its continue on a 0 bit.
BitLoop(st, x, cur_y, cur_byte, x_ind) ==
    IF x_ind >= 8 THEN st
    ELSE LET cur_x == x + x_ind
         IN  IF cur_x = WIDTH THEN st
             ELSE IF Bit(cur_byte, 7 - x_ind) = 0
                  THEN BitLoop(st, x, cur_y, cur_byte, x_ind + 1)
                  ELSE BitLoop(TogglePixel(st, WIDTH * cur_y + cur_x),
                               x, cur_y, cur_byte, x_ind + 1)

\* vf is 0 or 1.  TLC evaluates an operator's argument when it is first used:
\* testing this of a row's result has the row computed before the next begins,
\* which keeps the evaluation of a 15-row sprite shallow.
Computed(st) == st.vf \in {0, 1}

RECURSIVE RowLoop(_, _, _, _, _)
\* The outer loop of update_buf_sprite from row i (0-based) on, with its break at
\* the bottom edge.
RowLoop(st, x, y, sprite, i) ==
    IF i >= Len(sprite) THEN st
    ELSE LET cur_y == y + i
             row == BitLoop(st, x, cur_y, sprite[i + 1], 0)
         IN  IF cur_y = HEIGHT THEN st
             ELSE IF Computed(row) THEN RowLoop(row, x, y, sprite, i + 1)
             ELSE row

\* Display::update_buf_sprite: the buffer after it and the value for VF.
update_buf_sprite(buf, x, y, sprite) ==
    RowLoop([buf |-> buf, vf |-> 0], x, y, sprite, 0)

\* Display::draw
draw(d, x, y, sprite) ==
    LET r == update_buf_sprite(d.buf, x, y, sprite)
    IN  [disp |-> [d EXCEPT !.buf = r.buf], vf |-> r.vf]

(***************************************************************************)
(* Cpu: the handlers that touch Memory, Timer or Display.  An index at or   *)
(* past MEM_SIZE into mem.mem is a panic (the array is indexed directly,    *)
(* not through Memory::read).                                              *)
(***************************************************************************)
RECURSIVE StoreLoop(_, _, _, _)
\* The loop of Cpu::store from register r on: mem.mem[c.i + r] = c.v[r].
StoreLoop(c, m, ind, r) ==
    IF r > ind THEN [res |-> "Ok", mem |-> m]
    ELSE IF c.i + r >= MEM_SIZE THEN [res |-> "Panic", mem |-> m]
    ELSE StoreLoop(c, [m EXCEPT ![c.i + r] = c.v[r]], ind, r + 1)

\* A store whose loop is 0..ind, one register short.
store_exclusive(c, instr, m) ==
    IF XInd(instr) = 0 THEN [res |-> "Ok", mem |-> m]
    ELSE StoreLoop(c, m, XInd(instr) - 1, 0)

store(c, instr, m) == StoreLoop(c, m, XInd(instr), 0)

RECURSIVE LoadLoop(_, _, _, _)
\* The loop of Cpu::load from register r on: c.v[r] = mem.mem[c.i + r].
LoadLoop(c, m, ind, r) ==
    IF r > ind THEN [res |-> "Ok", cpu |-> c]
    ELSE IF c.i + r >= MEM_SIZE THEN [res |-> "Panic", cpu |-> c]
    ELSE LoadLoop([c EXCEPT !.v[r] = m[c.i + r]], m, ind, r + 1)

load(c, instr, m) == LoadLoop(c, m, XInd(instr), 0)

\* A bcd that writes the ones first: ones at i, tens at i + 1, hundreds at i + 2.
bcd_ones_first(c, instr, m) ==
    LET val == c.v[XInd(instr)]
    IN  IF c.i + 2 >= MEM_SIZE THEN [res |-> "Panic", mem |-> m]
        ELSE [res |-> "Ok",
              mem |-> [m EXCEPT ![c.i] = val % 10, ![c.i + 1] = (val \div 10) % 10,
                                ![c.i + 2] = (val \div 100) % 10]]

\* Cpu::bcd: hundreds at i, tens at i + 1, ones at i + 2, written in that order.
bcd(c, instr, m) ==
    LET val == c.v[XInd(instr)]
        digit3 == val % 10
        digit2 == (val \div 10) % 10
        digit1 == ((val \div 10) \div 10) % 10
    IN  IF c.i >= MEM_SIZE THEN [res |-> "Panic", mem |-> m]
        ELSE IF c.i + 1 >= MEM_SIZE
             THEN [res |-> "Panic", mem |-> [m EXCEPT ![c.i] = digit1]]
        ELSE IF c.i + 2 >= MEM_SIZE
             THEN [res |-> "Panic",
                   mem |-> [m EXCEPT ![c.i] = digit1, ![c.i + 1] = digit2]]
        ELSE [res |-> "Ok",
              mem |-> [m EXCEPT ![c.i] = digit1, ![c.i + 1] = digit2,
                                ![c.i + 2] = digit3]]

\* A get_sprite that clamps the origin to the last column and row.
get_sprite_clamped(c, instr, m) ==
    LET n == LowNibble(instr)
        vx == c.v[XInd(instr)]
        vy == c.v[YInd(instr)]
    IN  IF n > 0 /\ c.i + n - 1 >= MEM_SIZE
        THEN [res |-> "Panic", x |-> 0, y |-> 0, sprite |-> << >>]
        ELSE [res |-> "Ok",
              x |-> IF vx >= WIDTH THEN WIDTH - 1 ELSE vx,
              y |-> IF vy >= HEIGHT THEN HEIGHT - 1 ELSE vy,
              sprite |-> [k \in 1..n |-> m[c.i + k - 1]]]

\* Cpu::get_sprite: the origin, each coordinate modulo the dimension, and the n
\* bytes at i .. i + n - 1.
get_sprite(c, instr, m) ==
    LET n == LowNibble(instr)
    IN  IF n > 0 /\ c.i + n - 1 >= MEM_SIZE
        THEN [res |-> "Panic", x |-> 0, y |-> 0, sprite |-> << >>]
        ELSE [res |-> "Ok",
              x |-> c.v[XInd(instr)] % WIDTH,
              y |-> c.v[YInd(instr)] % HEIGHT,
              sprite |-> [k \in 1..n |-> m[c.i + k - 1]]]

\* Cpu::handle_draw
handle_draw(c, instr, m, d) ==
    LET s == get_sprite(c, instr, m)
    IN  IF s.res = "Panic" THEN [res |-> "Panic", cpu |-> c, disp |-> d]
        ELSE LET r == draw(d, s.x, s.y, s.sprite)
             IN  [res |-> "Ok", cpu |-> [c EXCEPT !.v[15] = r.vf], disp |-> r.disp]

\* Cpu::set_delay (Fx15)
set_delay(c, instr, t) == Timer_set_delay(t, c.v[XInd(instr)])

\* Cpu::get_delay (Fx07)
get_delay(c, instr, t) == [c EXCEPT !.v[XInd(instr)] = Timer_get_delay(t)]

\* Cpu::get_new_key_pressed_state: the state of every key 0..=0xF.
get_new_key_pressed_state(d) == [key \in 0..15 |-> get_key_state(d, key).val]

\* The keys at which the loop of check_key_state returns: pressed in the stored
\* snapshot, released in the new one.
ReleaseEdges(pressed, new_pressed) ==
    {k \in DOMAIN pressed :
        pressed[k] /\ k \in DOMAIN new_pressed /\ ~new_pressed[k]}

\* The keys at which the loop of check_key_state panics: pressed in the stored
\* snapshot, absent from the new one (new_pressed.get(k).unwrap()).
UnwrapNone(pressed, new_pressed) ==
    {k \in DOMAIN pressed : pressed[k] /\ k \notin DOMAIN new_pressed}

\* What the loop of check_key_state found when it found no key.
NoKey == -1

\* The outcomes of the loop of check_key_state over the HashMap, whose iteration
\* order is unspecified: the first key of the order that is a release edge or
\* panics decides, and any of them can be first.
KeyPicks(pressed, new_pressed) ==
    IF ReleaseEdges(pressed, new_pressed) \cup UnwrapNone(pressed, new_pressed) = {}
    THEN {NoKey}
    ELSE ReleaseEdges(pressed, new_pressed) \cup UnwrapNone(pressed, new_pressed)

\* A key wait that stores the snapshot and goes on to the next instruction: no
\* rewind of pc.
check_key_state_no_rewind(c, new_pressed, instr, pick) ==
    IF pick \in ReleaseEdges(c.pressed, new_pressed)
    THEN [res |-> "Ok",
          cpu |-> [c EXCEPT !.v[XInd(instr)] = pick, !.pressed = << >>]]
    ELSE IF pick \in UnwrapNone(c.pressed, new_pressed)
    THEN [res |-> "Panic", cpu |-> c]
    ELSE [res |-> "Ok", cpu |-> [c EXCEPT !.pressed = new_pressed]]

\* A key wait that reports a release and keeps the stored snapshot.
check_key_state_keep_pressed(c, new_pressed, instr, pick) ==
    IF pick \in ReleaseEdges(c.pressed, new_pressed)
    THEN [res |-> "Ok", cpu |-> [c EXCEPT !.v[XInd(instr)] = pick]]
    ELSE IF pick \in UnwrapNone(c.pressed, new_pressed)
    THEN [res |-> "Panic", cpu |-> c]
    ELSE [res |-> "Ok",
          cpu |-> [c EXCEPT !.pressed = new_pressed, !.pc = c.pc - 2]]

\* A key wait that rewinds pc also when it reports a release.
check_key_state_rewind_always(c, new_pressed, instr, pick) ==
    IF pick \in ReleaseEdges(c.pressed, new_pressed)
    THEN [res |-> "Ok",
          cpu |-> [c EXCEPT !.v[XInd(instr)] = pick, !.pressed = << >>,
                            !.pc = c.pc - 2]]
    ELSE IF pick \in UnwrapNone(c.pressed, new_pressed)
    THEN [res |-> "Panic", cpu |-> c]
    ELSE [res |-> "Ok",
          cpu |-> [c EXCEPT !.pressed = new_pressed, !.pc = c.pc - 2]]

\* Cpu::check_key_state, pick the key KeyPicks gives.
check_key_state(c, new_pressed, instr, pick) ==
    IF pick \in ReleaseEdges(c.pressed, new_pressed)
    THEN [res |-> "Ok",
          cpu |-> [c EXCEPT !.v[XInd(instr)] = pick, !.pressed = << >>]]
    ELSE IF pick \in UnwrapNone(c.pressed, new_pressed)
    THEN [res |-> "Panic", cpu |-> c]
    ELSE [res |-> "Ok",
          cpu |-> [c EXCEPT !.pressed = new_pressed, !.pc = c.pc - 2]]

\* Cpu::get_key (Fx0A)
get_key(c, instr, d, pick) ==
    check_key_state(c, get_new_key_pressed_state(d), instr, pick)

\* Cpu::key_pressed (Ex9E)
key_pressed(c, instr, d) ==
    LET key_state == get_key_state(d, c.v[XInd(instr)])
    IN  IF key_state.res = "Err" THEN [res |-> "Err", cpu |-> c]
        ELSE [res |-> "Ok",
              cpu |-> IF key_state.val THEN [c EXCEPT !.pc = c.pc + 2] ELSE c]

\* Cpu::key_not_pressed (ExA1)
key_not_pressed(c, instr, d) ==
    LET key_state == get_key_state(d, c.v[XInd(instr)])
    IN  IF key_state.res = "Err" THEN [res |-> "Err", cpu |-> c]
        ELSE [res |-> "Ok",
              cpu |-> IF ~key_state.val THEN [c EXCEPT !.pc = c.pc + 2] ELSE c]

handle_e_instructions(c, instr, d) ==
    IF LowByte(instr) = 158 THEN key_pressed(c, instr, d)
    ELSE IF LowByte(instr) = 161 THEN key_not_pressed(c, instr, d)
    ELSE [res |-> "Err", cpu |-> c]

(***************************************************************************)
(* Cpu::fetch and Cpu::decode.  decode gets the Cpu c, the instruction and  *)
(* the Options d (Display), m (Memory), t (Timer); rnd is the random byte   *)
(* of Cxnn and pick the key of KeyPicks.  It returns the result (Ok, Err or *)
(* Panic, an unwrap of None being a panic) and the four objects after it.   *)
(***************************************************************************)
\* A fetch that puts the byte at pc in the low half of the instruction.
fetch_little_endian(c, m) ==
    LET byte1 == read(m, c.pc)
        byte2 == read(m, c.pc + 1)
    IN  IF byte1.res = "Err" THEN [res |-> "Err", instr |-> 0, cpu |-> c]
        ELSE IF byte2.res = "Err" THEN [res |-> "Err", instr |-> 0, cpu |-> c]
        ELSE [res |-> "Ok", instr |-> byte2.val * 256 + byte1.val,
              cpu |-> [c EXCEPT !.pc = c.pc + 2]]

\* Cpu::fetch: the two bytes at pc and pc + 1, big endian; pc + 2 when both read.
fetch(c, m) ==
    LET byte1 == read(m, c.pc)
        byte2 == read(m, c.pc + 1)
    IN  IF byte1.res = "Err" THEN [res |-> "Err", instr |-> 0, cpu |-> c]
        ELSE IF byte2.res = "Err" THEN [res |-> "Err", instr |-> 0, cpu |-> c]
        ELSE [res |-> "Ok", instr |-> byte1.val * 256 + byte2.val,
              cpu |-> [c EXCEPT !.pc = c.pc + 2]]

\* What decode returns.
Ret(res, c, d, m, t) == [res |-> res, cpu |-> c, disp |-> d, mem |-> m, timer |-> t]

handle_f_instructions(c, instr, m, t, d, pick) ==
    LET b == LowByte(instr)
    IN  IF b = 10
        THEN IF ~IsSome(d) THEN Ret("Panic", c, d, m, t)
             ELSE LET r == get_key(c, instr, Unwrap(d), pick)
                  IN  Ret(r.res, r.cpu, d, m, t)
        ELSE IF b = 7
        THEN IF ~IsSome(t) THEN Ret("Panic", c, d, m, t)
             ELSE Ret("Ok", get_delay(c, instr, Unwrap(t)), d, m, t)
        ELSE IF b = 21
        THEN IF ~IsSome(t) THEN Ret("Panic", c, d, m, t)
             ELSE Ret("Ok", c, d, m, Some(set_delay(c, instr, Unwrap(t))))
        ELSE IF b = 30
        THEN Ret("Ok", increment_i(c, instr), d, m, t)
        ELSE IF b = 41
        THEN IF ~IsSome(m) THEN Ret("Panic", c, d, m, t)
             ELSE Ret("Ok", font_character(c, instr), d, m, t)
        ELSE IF b = 51
        THEN IF ~IsSome(m) THEN Ret("Panic", c, d, m, t)
             ELSE LET r == bcd(c, instr, Unwrap(m))
                  IN  Ret(r.res, c, d, Some(r.mem), t)
        ELSE IF b = 85
        THEN IF ~IsSome(m) THEN Ret("Panic", c, d, m, t)
             ELSE LET r == store(c, instr, Unwrap(m))
                  IN  Ret(r.res, c, d, Some(r.mem), t)
        ELSE IF b = 101
        THEN IF ~IsSome(m) THEN Ret("Panic", c, d, m, t)
             ELSE LET r == load(c, instr, Unwrap(m))
                  IN  Ret(r.res, r.cpu, d, m, t)
        ELSE Ret("Err", c, d, m, t)

decode(c, instr, d, m, t, rnd, pick) ==
    LET op == Shr(instr, 12) % 16
    IN  IF instr = 224
        THEN Ret("Ok", c, IF IsSome(d) THEN Some(clear(Unwrap(d))) ELSE d, m, t)
        ELSE IF instr = 238
        THEN LET r == return_routine(c) IN Ret(r.res, r.cpu, d, m, t)
        ELSE IF op = 1 THEN Ret("Ok", handle_jump(c, instr), d, m, t)
        ELSE IF op = 2 THEN Ret("Ok", subroutine(c, instr), d, m, t)
        ELSE IF op = 3 THEN Ret("Ok", skip_vx_equal(c, instr), d, m, t)
        ELSE IF op = 4 THEN Ret("Ok", skip_vx_ne(c, instr), d, m, t)
        ELSE IF op = 5 THEN Ret("Ok", skip_vx_vy_equal(c, instr), d, m, t)
        ELSE IF op = 9 THEN Ret("Ok", skip_vx_vy_not_equal(c, instr), d, m, t)
        ELSE IF op = 10 THEN Ret("Ok", set_i(c, instr), d, m, t)
        ELSE IF op = 6 THEN Ret("Ok", set_v(c, instr), d, m, t)
        ELSE IF op = 7 THEN Ret("Ok", add_v(c, instr), d, m, t)
        ELSE IF op = 8
        THEN LET r == handle_logic_arith(c, instr) IN Ret(r.res, r.cpu, d, m, t)
        ELSE IF op = 12 THEN Ret("Ok", random(c, instr, rnd), d, m, t)
        ELSE IF op = 13
        THEN IF ~IsSome(m) \/ ~IsSome(d) THEN Ret("Panic", c, d, m, t)
             ELSE LET r == handle_draw(c, instr, Unwrap(m), Unwrap(d))
                  IN  Ret(r.res, r.cpu, Some(r.disp), m, t)
        ELSE IF op = 14
        THEN IF ~IsSome(d) THEN Ret("Ok", c, d, m, t)
             ELSE LET r == handle_e_instructions(c, instr, Unwrap(d))
                  IN  Ret(r.res, r.cpu, d, m, t)
        ELSE IF op = 15 THEN handle_f_instructions(c, instr, m, t, d, pick)
        ELSE Ret("Err", c, d, m, t)

\* The picks decode can get for instr: those of KeyPicks for Fx0A with a Display,
\* and no pick for any other instruction.
DecodePicks(c, instr, d) ==
    IF Shr(instr, 12) % 16 = 15 /\ LowByte(instr) = 10 /\ IsSome(d)
    THEN KeyPicks(c.pressed, get_new_key_pressed_state(Unwrap(d)))
    ELSE {NoKey}

\* The bytes rand::random::<u8>() can return for instr, sampled for Cxnn.
DecodeRnds(instr) == IF Shr(instr, 12) % 16 = 12 THEN {0, 90, 165, 255} ELSE {0}

\* format!("{:X}", n): the hexadecimal digits of n, upper case, no leading zero.
HexChars == <<"0", "1", "2", "3", "4", "5", "6", "7", "8", "9", "A", "B", "C", "D", "E", "F">>

RECURSIVE UpperHex(_)
UpperHex(n) ==
    IF n < 16 THEN << HexChars[n + 1] >>
    ELSE Append(UpperHex(n \div 16), HexChars[(n % 16) + 1])

\* format!("{}", n): the decimal digits of n.
RECURSIVE Decimal(_)
Decimal(n) ==
    IF n < 10 THEN << HexChars[n + 1] >>
    ELSE Append(Decimal(n \div 10), HexChars[(n % 10) + 1])

\* The String of the Err that decode returns for instr: the text, then the
\* digits formatted after it.
decode_err(c, instr) ==
    LET op == Shr(instr, 12) % 16
    IN  IF op \in {8, 15}
        THEN [text |-> "Unhandled instruction: 0x", digits |-> UpperHex(instr)]
        ELSE IF op = 14
        THEN IF LowByte(instr) \in {158, 161}
             THEN [text |-> "Invalid key provided: ",
                   digits |-> Decimal(c.v[XInd(instr)])]
             ELSE [text |-> "Unhandled instruction: 0x", digits |-> UpperHex(instr)]
        ELSE [text |-> "Unknown instruction: 0x", digits |-> UpperHex(instr)]

(***************************************************************************)
(* The main loop (main.rs) with the timer thread and the display thread.   *)
(***************************************************************************)
\* Programs the model loads, as the bytes of the file.
KeyWaitProgram ==
    << 244, 10,    \* 0x200: F40A  V4 = key
       18, 0 >>    \* 0x202: 1200  jump 0x200

CallProgram ==
    << 34, 6,      \* 0x200: 2206  call 0x206
       18, 2,      \* 0x202: 1202  jump 0x202
       0, 0,       \* 0x204: 0000
       34, 10,     \* 0x206: 220A  call 0x20A
       0, 238,     \* 0x208: 00EE  return
       0, 238 >>   \* 0x20A: 00EE  return

ReturnProgram ==
    << 0, 238 >>   \* 0x200: 00EE  return, the stack empty

Programs == {KeyWaitProgram, CallProgram, ReturnProgram}

\* The keyboard events the display thread gets: key 1, key A, and a scancode
\* that is not in the table.
EventScancodes == {2, 44, 93}
ElementState == {"Pressed", "Released"}

\* main up to its loop: Memory::new, load_program (a failure is printed and main
\* goes on), Display::new(false), Cpu::new, Timer::new(false).
MainInit(program) ==
    /\ cpu = CpuNew
    /\ mem = Some(load_program(MemoryNew, program).mem)
    /\ disp = Some(DisplayNew)
    /\ timer = Some(TimerNew)
    /\ audio = "stopped"
    /\ status = "running"
    /\ log = << >>
    /\ count = [cycles |-> 0, ticks |-> 0, events |-> 0]
    /\ threads = ThreadsNew

Init == \E program \in Programs : MainInit(program)

\* What the log keeps of one pass of the main loop: the Cpu before the fetch, the
\* instruction, the keys as the display has them, and how the pass ended.
CycleEntry(c, instr, d, res) ==
    [pre |-> c, instr |-> instr, keys |-> get_new_key_pressed_state(Unwrap(d)),
     res |-> res]

\* A loop that prints the error of decode and goes on to the next fetch.
StatusAfter_go_on(res) ==
    IF res = "Panic" THEN "panicked" ELSE "running"

\* After a result: the loop goes on, breaks to exit(1), or the thread panics.
StatusAfter(res) ==
    IF res = "Ok" THEN "running" ELSE IF res = "Err" THEN "exited" ELSE "panicked"

\* One pass of the main loop: fetch, decode, sleep.
CpuCycle ==
    /\ status = "running"
    /\ count.cycles < MaxCycles
    /\ LET f == fetch(cpu, Unwrap(mem))
       IN  IF f.res = "Err"
           THEN /\ status' = "exited"
                /\ log' = Append(log, CycleEntry(cpu, 0, disp, "FetchErr"))
                /\ UNCHANGED <<cpu, mem, disp, timer>>
           ELSE \E rnd \in DecodeRnds(f.instr) :
                \E pick \in DecodePicks(f.cpu, f.instr, disp) :
                    LET r == decode(f.cpu, f.instr, disp, mem, timer, rnd, pick)
                    IN  /\ cpu' = r.cpu
                        /\ mem' = r.mem
                        /\ disp' = r.disp
                        /\ timer' = r.timer
                        /\ status' = StatusAfter(r.res)
                        /\ log' = Append(log, CycleEntry(cpu, f.instr, disp, r.res))
    /\ count' = [count EXCEPT !.cycles = @ + 1]
    /\ UNCHANGED audio
    /\ UNCHANGED threads

\* One pass of Timer::thread_loop.
TimerTick ==
    /\ status = "running"
    /\ count.ticks < MaxTicks
    /\ LET r == one_iteration(Unwrap(timer), audio)
       IN  /\ timer' = Some(r.timer)
           /\ audio' = r.audio
    /\ count' = [count EXCEPT !.ticks = @ + 1]
    /\ UNCHANGED <<cpu, mem, disp, status, log>>
    /\ UNCHANGED threads

\* One KeyboardInput event in Display::handle_window_events; an error of
\* set_key_state is printed and the loop goes on.
InputEvent ==
    /\ status = "running"
    /\ count.events < MaxEvents
    /\ \E scan_code \in EventScancodes, state \in ElementState :
          disp' = Some(set_key_state(Unwrap(disp), scan_code, state).disp)
    /\ count' = [count EXCEPT !.events = @ + 1]
    /\ UNCHANGED <<cpu, mem, timer, audio, status, log>>
    /\ UNCHANGED threads

Next == CpuCycle \/ TimerTick \/ InputEvent

Spec == Init /\ [][Next]_vars

(***************************************************************************)
(* Properties of the main loop.  Entry n of the log is pass n of the loop;  *)
(* the Cpu after pass n is the Cpu before pass n + 1, or the present one.   *)
(***************************************************************************)
CpuAfter(n) == IF n < Len(log) THEN log[n + 1].pre ELSE cpu

\* Pass n decoded Fx0A.
IsGetKey(n) ==
    /\ log[n].res /= "FetchErr"
    /\ log[n].instr \div 4096 = 15
    /\ log[n].instr % 256 = 10

\* The keys that were pressed in the snapshot the Cpu had stored before pass n and
\* are released in the state pass n sampled.
Released(n) ==
    {k \in 0..15 :
        /\ k \in DOMAIN log[n].pre.pressed
        /\ log[n].pre.pressed[k]
        /\ ~log[n].keys[k]}

\* The last pass before n that decoded Fx0A, 0 if there is none.
PrevGetKey(n) ==
    LET earlier == {j \in 1..(n - 1) : IsGetKey(j)}
    IN  IF earlier = {} THEN 0 ELSE CHOOSE j \in earlier : \A q \in earlier : q <= j

\* C1: an Fx0A that finds no key pressed in the stored snapshot and released in
\* the sampled one changes no register, stores the sampled snapshot, and takes pc
\* back by 2 to the address of the Fx0A itself; the loop goes on, and the next
\* pass fetches the same instruction at the same address.
C1_KeyWaitRetry ==
    \A n \in 1..Len(log) :
        (IsGetKey(n) /\ Released(n) = {}) =>
            /\ log[n].res = "Ok"
            /\ CpuAfter(n).v = log[n].pre.v
            /\ CpuAfter(n).pressed = log[n].keys
            /\ CpuAfter(n).pc = (log[n].pre.pc + 2) - 2
            /\ CpuAfter(n).i = log[n].pre.i
            /\ CpuAfter(n).stack = log[n].pre.stack
            /\ (n = Len(log) => status = "running")
            /\ (n < Len(log) =>
                    /\ log[n + 1].instr = log[n].instr
                    /\ log[n + 1].pre.pc = log[n].pre.pc)

\* C1's case: an Fx0A found a key held down and no release, and the pass after it
\* was done.
C1_Witness ==
    \E n \in 1..Len(log) :
        /\ IsGetKey(n)
        /\ Released(n) = {}
        /\ \E k \in 0..15 : log[n].keys[k]
        /\ n < Len(log)

\* C2: an Fx0A that finds keys pressed in the stored snapshot and released in the
\* sampled one writes one of them to register x and nothing to the other
\* registers, empties the stored snapshot and leaves pc after the instruction;
\* the report is made once: the key reported was pressed in the snapshot of the
\* Fx0A before, which reported nothing, and an Fx0A that follows a reporting one
\* reports nothing, whatever else was released with the reported key.
C2_KeyRelease ==
    \A n \in 1..Len(log) :
        (IsGetKey(n) /\ Released(n) /= {}) =>
            LET x == (log[n].instr \div 256) % 16
                p == PrevGetKey(n)
            IN  /\ log[n].res = "Ok"
                /\ CpuAfter(n).v[x] \in Released(n)
                /\ \A r \in 0..15 : r /= x => CpuAfter(n).v[r] = log[n].pre.v[r]
                /\ DOMAIN CpuAfter(n).pressed = {}
                /\ CpuAfter(n).pc = log[n].pre.pc + 2
                /\ p /= 0
                /\ Released(p) = {}
                /\ log[p].keys[CpuAfter(n).v[x]]

\* C2's case: two keys were released in the snapshot of a reporting Fx0A, and a
\* later pass decoded Fx0A again.
C2_Witness ==
    \E n \in 1..Len(log) :
        /\ IsGetKey(n)
        /\ Cardinality(Released(n)) >= 2
        /\ \E q \in (n + 1)..Len(log) : IsGetKey(q)

\* C7: 2nnn pushes the address after the call and jumps to nnn; 00EE pops the
\* address pushed last into pc; a call followed at once by a return restores pc
\* to the address after the call and the stack to what it was, and two nested
\* calls return in the reverse order.
C7_CallReturn ==
    \A n \in 1..Len(log) :
        LET e == log[n] IN
        /\ (e.res = "Ok" /\ e.instr \div 4096 = 2) =>
              /\ CpuAfter(n).stack = e.pre.stack \o << e.pre.pc + 2 >>
              /\ CpuAfter(n).pc = e.instr % 4096
        /\ (e.res = "Ok" /\ e.instr = 238) =>
              /\ Len(e.pre.stack) > 0
              /\ CpuAfter(n).pc = e.pre.stack[Len(e.pre.stack)]
              /\ CpuAfter(n).stack = [j \in 1..(Len(e.pre.stack) - 1) |-> e.pre.stack[j]]
        /\ (n < Len(log) /\ e.instr \div 4096 = 2 /\ log[n + 1].instr = 238) =>
              /\ CpuAfter(n + 1).pc = e.pre.pc + 2
              /\ CpuAfter(n + 1).stack = e.pre.stack
        /\ (/\ n + 3 <= Len(log)
            /\ e.instr \div 4096 = 2 /\ log[n + 1].instr \div 4096 = 2
            /\ log[n + 2].instr = 238 /\ log[n + 3].instr = 238) =>
              /\ CpuAfter(n + 2).pc = log[n + 1].pre.pc + 2
              /\ CpuAfter(n + 3).pc = e.pre.pc + 2
              /\ CpuAfter(n + 3).stack = e.pre.stack

\* C7's case: two calls, then two returns, back at the address after the first
\* call.
C7_Witness ==
    \E n \in 1..Len(log) :
        /\ n + 3 <= Len(log)
        /\ log[n].instr \div 4096 = 2 /\ log[n + 1].instr \div 4096 = 2
        /\ log[n + 2].instr = 238 /\ log[n + 3].instr = 238
        /\ log[n + 3].res = "Ok"
        /\ log[n].pre.pc /= log[n + 1].pre.pc
        /\ CpuAfter(n + 3).pc = log[n].pre.pc + 2


\* Pass n decoded 00EE with the call stack empty.
IsReturnEmpty(n) ==
    /\ log[n].res /= "FetchErr"
    /\ log[n].instr = 238
    /\ log[n].pre.stack = << >>

\* C21: 00EE with an empty call stack is fatal: the pass that decodes it is the
\* last one (nothing is fetched or decoded after it), it ends in a panic and the
\* process is gone, and pc keeps the value the fetch gave it, the stack staying
\* empty.
C21_ReturnEmptyFatal ==
    \A n \in 1..Len(log) :
        IsReturnEmpty(n) =>
            /\ n = Len(log)
            /\ log[n].res = "Panic"
            /\ status = "panicked"
            /\ cpu.pc = log[n].pre.pc + 2
            /\ cpu.stack = << >>

\* 00EE was decoded with an empty stack and the process is gone, a timer or
\* display pass having run before it.
C21_Witness ==
    /\ Len(log) >= 1
    /\ IsReturnEmpty(Len(log))
    /\ status = "panicked"
    /\ count.ticks + count.events > 0

(***************************************************************************)
(* decode on a Cpu alone, as the tests of cpu.rs call it: registers are set *)
(* directly, then one instruction is decoded with no Display, Memory or     *)
(* Timer.                                                                   *)
(***************************************************************************)
\* Register and immediate values the model tries.
ByteVals == {0, 1, 69, 80, 128, 170, 255}
FlagVals == {0, 1, 200}

\* 7xnn and 8xyN for every x and y; N = 4 has no handler.
AddVInstrs == {7 * 4096 + x * 256 + nn : x \in 0..15, nn \in {0, 1, 50, 255}}
LogicArithInstrs ==
    {8 * 4096 + x * 256 + y * 16 + n :
        x \in 0..15, y \in 0..15, n \in {0, 1, 2, 3, 4, 5, 6, 7, 14}}

\* A Cpu::new whose registers were then set: the even ones to a, the odd ones to
\* b, VF to f.
InitAlu ==
    /\ \E a \in ByteVals, b \in ByteVals, f \in FlagVals :
          cpu = [CpuNew EXCEPT !.v = [r \in 0..15 |->
                    IF r = 15 THEN f ELSE IF r % 2 = 0 THEN a ELSE b]]
    /\ mem = NoneOpt
    /\ disp = NoneOpt
    /\ timer = NoneOpt
    /\ audio = None
    /\ status = "running"
    /\ log = << >>
    /\ count = [cycles |-> 0, ticks |-> 0, events |-> 0]
    /\ threads = ThreadsNew

\* cpu.decode(instr, None, None, None), once.
DecodeOnce(instr) ==
    /\ LET r == decode(cpu, instr, disp, mem, timer, 0, NoKey)
       IN  /\ cpu' = r.cpu
           /\ log' = Append(log, [pre |-> cpu, instr |-> instr, res |-> r.res])
           /\ status' = StatusAfter(r.res)
    /\ count' = [count EXCEPT !.cycles = @ + 1]
    /\ UNCHANGED <<mem, disp, timer, audio>>
    /\ UNCHANGED threads

DecodeAddV ==
    /\ Len(log) = 0
    /\ \E instr \in AddVInstrs : DecodeOnce(instr)

DecodeLogicArith ==
    /\ Len(log) = 0
    /\ \E instr \in LogicArithInstrs : DecodeOnce(instr)

NextAlu == DecodeAddV \/ DecodeLogicArith

SpecAlu == InitAlu /\ [][NextAlu]_vars

\* The fields of the instruction decoded, and the registers before it.
DoneAlu == Len(log) = 1
OpOf == log[1].instr \div 4096
XOf == (log[1].instr \div 256) % 16
YOf == (log[1].instr \div 16) % 16
NOf == log[1].instr % 16
NNOf == log[1].instr % 256
VBefore == log[1].pre.v

\* C8 as claimed: after 7xnn register x is (Vx + nn) mod 256 and VF is what it
\* was, for every x.
C8_AsClaimed ==
    (DoneAlu /\ OpOf = 7) =>
        /\ cpu.v[XOf] = (VBefore[XOf] + NNOf) % 256
        /\ cpu.v[15] = VBefore[15]

\* C8, amended: after 7xnn register x is (Vx + nn) mod 256 and every other
\* register is what it was, so VF changes only as the target register of 7Fnn and
\* never to signal a carry; pc, the index register and the stack are unchanged.
C8_AddV ==
    (DoneAlu /\ OpOf = 7) =>
        /\ log[1].res = "Ok"
        /\ cpu.v[XOf] = (VBefore[XOf] + NNOf) % 256
        /\ \A r \in 0..15 : r /= XOf => cpu.v[r] = VBefore[r]
        /\ cpu.pc = log[1].pre.pc
        /\ cpu.i = log[1].pre.i
        /\ cpu.stack = log[1].pre.stack

\* C8's case: a 7xnn on a register other than VF whose sum passed 255.
C8_Witness ==
    /\ DoneAlu
    /\ OpOf = 7
    /\ XOf /= 15
    /\ VBefore[XOf] + NNOf > 255
    /\ VBefore[15] = 0

\* C9: after 8xy5 (8xy7) VF is 1 if Vx > Vy (Vy > Vx) and 0 otherwise, for every
\* x and y; register x, when it is not VF itself, is the difference mod 256.
C9_SubFlag ==
    (DoneAlu /\ OpOf = 8 /\ NOf \in {5, 7}) =>
        LET minuend == IF NOf = 5 THEN VBefore[XOf] ELSE VBefore[YOf]
            subtrahend == IF NOf = 5 THEN VBefore[YOf] ELSE VBefore[XOf]
        IN  /\ cpu.v[15] = IF minuend > subtrahend THEN 1 ELSE 0
            /\ XOf /= 15 => cpu.v[XOf] = (minuend - subtrahend) % 256

\* C10: after 8xy6 (8xyE) VF is bit 0 (bit 7) of the Vx before it, for every x;
\* register x, when it is not VF itself, is that Vx shifted by one within 8
\* bits, and register y, when it is neither, is what it was.
C10_ShiftFlag ==
    (DoneAlu /\ OpOf = 8 /\ NOf \in {6, 14}) =>
        LET vx == VBefore[XOf]
        IN  /\ cpu.v[15] = IF NOf = 6 THEN vx % 2 ELSE vx \div 128
            /\ XOf /= 15 =>
                  cpu.v[XOf] = IF NOf = 6 THEN vx \div 2 ELSE (vx * 2) % 256
            /\ YOf \notin {XOf, 15} => cpu.v[YOf] = VBefore[YOf]

(***************************************************************************)
(* A Display on its own, as the tests of display.rs build it                *)
(* (Display::new(true)): draw and clear called on it.                       *)
(***************************************************************************)
\* The origins and sprites the model draws: the glyph F of the tests, fifteen
\* full rows, and one row with its two end bits set.
DrawXs == {32, 57, 63}
DrawYs == {16, 29}
GlyphF == << 240, 128, 240, 128, 128 >>
Sprites == {GlyphF, [k \in 1..15 |-> 255], << 129 >>}

InitDraw ==
    /\ cpu = CpuNew
    /\ mem = NoneOpt
    /\ disp = Some(DisplayNew)
    /\ timer = NoneOpt
    /\ audio = None
    /\ status = "running"
    /\ log = << >>
    /\ count = [cycles |-> 0, ticks |-> 0, events |-> 0]
    /\ threads = ThreadsNew

\* Display::draw(disp, x, y, sprite); the log keeps the call, the buffer before it
\* and the flag it returned.
DrawSprite ==
    /\ Len(log) < MaxDraws
    /\ \E x \in DrawXs, y \in DrawYs, sprite \in Sprites :
          LET r == draw(Unwrap(disp), x, y, sprite)
          IN  /\ disp' = Some(r.disp)
              /\ log' = Append(log, [op |-> "draw", x |-> x, y |-> y,
                                     sprite |-> sprite, vf |-> r.vf,
                                     before |-> Unwrap(disp).buf])
    /\ UNCHANGED <<cpu, mem, timer, audio, status, count>>
    /\ UNCHANGED threads

\* Display::clear(disp)
ClearScreen ==
    /\ Len(log) < MaxDraws
    /\ disp' = Some(clear(Unwrap(disp)))
    /\ log' = Append(log, [op |-> "clear", x |-> 0, y |-> 0, sprite |-> << >>,
                           vf |-> 0, before |-> Unwrap(disp).buf])
    /\ UNCHANGED <<cpu, mem, timer, audio, status, count>>
    /\ UNCHANGED threads

NextDraw == DrawSprite \/ ClearScreen

SpecDraw == InitDraw /\ [][NextDraw]_vars

\* The buffer after call n of the log.
BufAfter(n) == IF n < Len(log) THEN log[n + 1].before ELSE Unwrap(disp).buf

\* The pixels of the 64x32 grid, as indexes 64 * row + column, that a 1-bit of
\* the sprite of call n addresses: bit 7 of sprite row r is at column x, row y + r.
SpritePixels(n) ==
    LET e == log[n]
        inside == {q \in (0..(Len(e.sprite) - 1)) \X (0..7) :
                      /\ e.y + q[1] <= 31
                      /\ e.x + q[2] <= 63
                      /\ (e.sprite[q[1] + 1] \div (2 ^ (7 - q[2]))) % 2 = 1}
    IN  {64 * (e.y + q[1]) + e.x + q[2] : q \in inside}

\* C3: a draw toggles every pixel of the 64x32 grid that a 1-bit of the sprite
\* addresses and leaves every other pixel as it was; it returns 1 if a pixel that
\* was on went off, and 0 otherwise.  Stated of the latest call: every draw is the
\* latest one in the state that follows it.
C3_DrawXor ==
    \A n \in {Len(log)} \ {0} :
        log[n].op = "draw" =>
            LET hit == SpritePixels(n)
                before == log[n].before
                after == BufAfter(n)
            IN  /\ \A p \in 0..2047 :
                      after[p] = IF p \in hit
                                 THEN (IF before[p] = 255 THEN 0 ELSE 255)
                                 ELSE before[p]
                /\ log[n].vf = IF \E p \in hit : before[p] = 255 THEN 1 ELSE 0

\* C3's case: one draw that turned a pixel off and another pixel on.
C3_Witness ==
    \E n \in 1..Len(log) :
        /\ log[n].op = "draw"
        /\ log[n].vf = 1
        /\ \E p \in 0..2047 : log[n].before[p] = 255 /\ BufAfter(n)[p] = 0
        /\ \E p \in 0..2047 : log[n].before[p] = 0 /\ BufAfter(n)[p] = 255

C5_DrawClip ==
    \A n \in {Len(log)} \ {0} :
        log[n].op = "draw" =>
            LET before == log[n].before
                after == BufAfter(n)
                last_col == IF log[n].x + 7 < 63 THEN log[n].x + 7 ELSE 63
                bottom == log[n].y + Len(log[n].sprite) - 1
                last_row == IF bottom < 31 THEN bottom ELSE 31
            IN  /\ DOMAIN after = 0..2047
                /\ \A p \in 0..2047 :
                      after[p] /= before[p] =>
                          /\ p % 64 >= log[n].x
                          /\ p % 64 <= last_col
                          /\ p \div 64 >= log[n].y
                          /\ p \div 64 <= last_row

\* C5's case: a draw whose sprite reaches past both edges and that changed the
\* corner pixel (63, 31).
C5_Witness ==
    \E n \in 1..Len(log) :
        /\ log[n].op = "draw"
        /\ log[n].x + 7 > 63
        /\ log[n].y + Len(log[n].sprite) - 1 > 31
        /\ BufAfter(n)[64 * 31 + 63] /= log[n].before[64 * 31 + 63]

(***************************************************************************)
(* A Timer on its own, as the test of timer.rs builds it (Timer::new(true)): *)
(* no thread, no Audio; one_iteration is called by hand.                    *)
(***************************************************************************)
TimerVals == {0, 1, 2, 6, 255}

InitTimer ==
    /\ cpu = CpuNew
    /\ mem = NoneOpt
    /\ disp = NoneOpt
    /\ timer = Some(TimerNew)
    /\ audio = None
    /\ status = "running"
    /\ log = << >>
    /\ count = [cycles |-> 0, ticks |-> 0, events |-> 0]
    /\ threads = ThreadsNew

\* What the log keeps of a call on the Timer: the call, and the Timer and the
\* Audio device before it.
TimerEntry(op, val) ==
    [op |-> op, val |-> val, before |-> Unwrap(timer), audio |-> audio]

SetDelay ==
    /\ Len(log) < MaxTimerOps
    /\ \E val \in TimerVals :
          /\ timer' = Some(Timer_set_delay(Unwrap(timer), val))
          /\ log' = Append(log, TimerEntry("set_delay", val))
    /\ UNCHANGED <<cpu, mem, disp, audio, status, count>>
    /\ UNCHANGED threads

SetSound ==
    /\ Len(log) < MaxTimerOps
    /\ \E val \in TimerVals :
          /\ timer' = Some(Timer_set_sound(Unwrap(timer), val))
          /\ log' = Append(log, TimerEntry("set_sound", val))
    /\ UNCHANGED <<cpu, mem, disp, audio, status, count>>
    /\ UNCHANGED threads

OneIteration ==
    /\ Len(log) < MaxTimerOps
    /\ LET r == one_iteration(Unwrap(timer), audio)
       IN  /\ timer' = Some(r.timer)
           /\ audio' = r.audio
    /\ log' = Append(log, TimerEntry("one_iteration", 0))
    /\ UNCHANGED <<cpu, mem, disp, status, count>>
    /\ UNCHANGED threads

NextTimer == SetDelay \/ SetSound \/ OneIteration

SpecTimer == InitTimer /\ [][NextTimer]_vars

\* The Timer after call n of the log.
TimerAfter(n) == IF n < Len(log) THEN log[n + 1].before ELSE Unwrap(timer)

\* The calls after call n up to call m are none of them set_delay.
NoSetDelay(n, m) == \A j \in (n + 1)..m : log[j].op /= "set_delay"

\* The iterations among the calls after call n up to call m.
Ticks(n, m) == Cardinality({j \in (n + 1)..m : log[j].op = "one_iteration"})

\* C6: one iteration takes 1 from each counter that is above 0 and leaves a
\* counter at 0 where it is; get_delay after set_delay(v) and k iterations with no
\* set_delay between is v - k, or 0 when k is above v; no counter leaves 0..255.
C6_TimerCountdown ==
    /\ Timer_get_delay(Unwrap(timer)) \in 0..255
    /\ Timer_get_sound(Unwrap(timer)) \in 0..255
    /\ \A n \in 1..Len(log) :
          /\ log[n].op = "one_iteration" =>
                /\ TimerAfter(n).delay =
                      IF log[n].before.delay > 0 THEN log[n].before.delay - 1 ELSE 0
                /\ TimerAfter(n).sound =
                      IF log[n].before.sound > 0 THEN log[n].before.sound - 1 ELSE 0
          /\ log[n].op = "set_delay" =>
                \A m \in n..Len(log) :
                    NoSetDelay(n, m) =>
                        Timer_get_delay(TimerAfter(m)) =
                            IF log[n].val - Ticks(n, m) > 0
                            THEN log[n].val - Ticks(n, m) ELSE 0

\* C6's case: set_delay(6) and two iterations give 4, as in the test, and an
\* iteration found the sound counter at 0.
C6_Witness ==
    \E n \in 1..Len(log) :
        /\ n + 2 <= Len(log)
        /\ log[n].op = "set_delay" /\ log[n].val = 6
        /\ log[n + 1].op = "one_iteration" /\ log[n + 2].op = "one_iteration"
        /\ log[n + 2].before.sound = 0
        /\ Timer_get_delay(TimerAfter(n + 2)) = 4

(***************************************************************************)
(* fetch on a Cpu and a Memory alone, as the tests check_fetch and          *)
(* fetch_invalid_addr of cpu.rs call it: pc is set directly, then fetch is  *)
(* called, more than once.                                                  *)
(***************************************************************************)
\* The values of pc the model starts from; 4106 is the one of
\* fetch_invalid_addr, 65535 the largest u16.
FetchPcs ==
    {0, 80, 81, 512, 513, 514, 2000, 4092, 4093, 4094, 4095, 4096, 4097, 4106, 65535}

\* A program that fills the memory from 0x200 to its end with bytes that differ
\* from their neighbours.
FillProgram == [k \in 1..(MEM_SIZE - PROGRAM_ADDRESS) |-> (k * 7 + 3) % 256]

\* The memories the model fetches from: the one of check_fetch (00E0 and 70AB at
\* 0x200 in an array of zeros), and Memory::new with FillProgram loaded.
FetchMems ==
    {[a \in 0..(MEM_SIZE - 1) |->
         IF a = PROGRAM_ADDRESS + 1 THEN 224
         ELSE IF a = PROGRAM_ADDRESS + 2 THEN 112
         ELSE IF a = PROGRAM_ADDRESS + 3 THEN 171
         ELSE 0],
     load_program(MemoryNew, FillProgram).mem}

InitFetch ==
    /\ \E pc \in FetchPcs : cpu = [CpuNew EXCEPT !.pc = pc]
    /\ \E m \in FetchMems : mem = Some(m)
    /\ disp = NoneOpt
    /\ timer = NoneOpt
    /\ audio = None
    /\ status = "running"
    /\ log = << >>
    /\ count = [cycles |-> 0, ticks |-> 0, events |-> 0]
    /\ threads = ThreadsNew

\* cpu.fetch(&mem); the log keeps the Cpu before the call and what it returned.
FetchOnce ==
    /\ Len(log) < MaxFetches
    /\ LET f == fetch(cpu, Unwrap(mem))
       IN  /\ cpu' = f.cpu
           /\ log' = Append(log, [pre |-> cpu, instr |-> f.instr, res |-> f.res])
    /\ UNCHANGED <<mem, disp, timer, audio, status, count>>
    /\ UNCHANGED threads

NextFetch == FetchOnce

SpecFetch == InitFetch /\ [][NextFetch]_vars

\* C11: a fetch at pc <= 4094 returns mem[pc] * 256 + mem[pc + 1], adds 2 to pc and
\* changes no other field of the Cpu; a fetch at pc >= 4095 fails and leaves the
\* Cpu as it was; two successful fetches in a row return the words at pc and
\* pc + 2.
C11_Fetch ==
    \A n \in 1..Len(log) :
        LET pre == log[n].pre
            m == Unwrap(mem)
        IN  /\ pre.pc <= 4094 =>
                  /\ log[n].res = "Ok"
                  /\ log[n].instr = m[pre.pc] * 256 + m[pre.pc + 1]
                  /\ CpuAfter(n) = [pre EXCEPT !.pc = pre.pc + 2]
            /\ pre.pc >= 4095 =>
                  /\ log[n].res = "Err"
                  /\ CpuAfter(n) = pre
            /\ (n < Len(log) /\ log[n].res = "Ok" /\ log[n + 1].res = "Ok") =>
                  /\ log[n + 1].pre.pc = pre.pc + 2
                  /\ log[n + 1].instr = m[pre.pc + 2] * 256 + m[pre.pc + 3]

\* C11's case: two fetches that returned different words, the second the last
\* word of the memory, and then a fetch at 4096 that failed.
C11_Witness ==
    /\ Len(log) = 3
    /\ log[1].pre.pc = 4092
    /\ log[1].res = "Ok" /\ log[2].res = "Ok" /\ log[3].res = "Err"
    /\ log[1].instr /= log[2].instr
    /\ log[2].instr \div 256 /= log[2].instr % 256
    /\ cpu.pc = 4096

(***************************************************************************)
(* A Memory on its own, as the tests of mem.rs build it: load_program is    *)
(* called on Memory::new or on an array of zeros, then read.                *)
(***************************************************************************)
\* The programs the model loads.  Those of the tests, every byte 8: 400 bytes
\* (check_load) and 4000 bytes (check_invalid_size).  And programs whose bytes
\* differ from their neighbours, of lengths about the room from 0x200 to the end
\* of the memory, 3584.
LoadLens == {0, 1, 400, 3584, 3585}
LoadPrograms ==
    {[k \in 1..len |-> 8] : len \in {400, 4000}}
        \cup {[k \in 1..len |-> (k * 5 + 1) % 256] : len \in LoadLens}

\* Addresses at and past the end of the memory.
ReadBeyond == {4096, 4097, 8192, 65535, 65536}

InitLoad ==
    /\ cpu = CpuNew
    /\ mem \in {Some(MemoryNew), Some([a \in 0..(MEM_SIZE - 1) |-> 0])}
    /\ disp = NoneOpt
    /\ timer = NoneOpt
    /\ audio = None
    /\ status = "running"
    /\ log = << >>
    /\ count = [cycles |-> 0, ticks |-> 0, events |-> 0]
    /\ threads = ThreadsNew

\* mem.load_program(&program); the log keeps the program, the memory before the
\* call and the result.
LoadProgram ==
    /\ Len(log) < MaxLoads
    /\ \E program \in LoadPrograms :
          LET r == load_program(Unwrap(mem), program)
          IN  /\ mem' = Some(r.mem)
              /\ log' = Append(log, [op |-> "load", program |-> program,
                                     before |-> Unwrap(mem), res |-> r.res])
    /\ UNCHANGED <<cpu, disp, timer, audio, status, count>>
    /\ UNCHANGED threads

NextLoad == LoadProgram

SpecLoad == InitLoad /\ [][NextLoad]_vars

\* The memory after call n of the log.
MemAfter(n) == IF n < Len(log) THEN log[n + 1].before ELSE Unwrap(mem)

\* C12: after a load that succeeded, read(a) for a < 4096 is p[a - 0x200] when
\* 0x200 <= a < 0x200 + len(p) and the byte that was there before the load at
\* every other address; read(a) fails for a >= 4096.  Stated of the latest load:
\* every load is the latest one in the state that follows it.
C12_LoadRead ==
    \A n \in {Len(log)} \ {0} :
        log[n].res = "Ok" =>
            LET p == log[n].program
                after == MemAfter(n)
            IN  /\ \A a \in 0..4095 :
                      /\ read(after, a).res = "Ok"
                      /\ read(after, a).val =
                            IF 512 <= a /\ a < 512 + Len(p)
                            THEN p[a - 512 + 1]
                            ELSE log[n].before[a]
                /\ \A a \in ReadBeyond : read(after, a).res = "Err"

\* C12's case: a program of 400 bytes loaded into Memory::new, then a program of
\* one byte: the font and the bytes of the first program past 0x200 are still
\* read.
C12_Witness ==
    /\ Len(log) = 2
    /\ log[1].res = "Ok" /\ log[2].res = "Ok"
    /\ Len(log[1].program) = 400 /\ Len(log[2].program) = 1
    /\ log[1].program[2] /= log[1].program[1]
    /\ read(Unwrap(mem), 512).val = log[2].program[1]
    /\ read(Unwrap(mem), 513).val = log[1].program[2]
    /\ read(Unwrap(mem), 80).val = 240

\* C13: a load fails exactly when the program is longer than 4096 - 0x200 = 3584
\* bytes, and a load that failed leaves every byte of the memory as it was.
C13_LoadTooLarge ==
    \A n \in 1..Len(log) :
        /\ (log[n].res = "Err") <=> (Len(log[n].program) > 3584)
        /\ log[n].res \in {"Ok", "Err"}
        /\ log[n].res = "Err" => MemAfter(n) = log[n].before

\* C13's case: a program of exactly 3584 bytes was loaded, and then one of 3585
\* bytes was refused and the loaded bytes stayed.
C13_Witness ==
    /\ Len(log) = 2
    /\ Len(log[1].program) = 3584 /\ log[1].res = "Ok"
    /\ Len(log[2].program) = 3585 /\ log[2].res = "Err"
    /\ Unwrap(mem)[4095] = log[1].program[3584]
    /\ Unwrap(mem)[4095] /= 0

(***************************************************************************)
(* The main loop on programs whose instructions the Cpu refuses or that     *)
(* reach past the memory: the same threads as Spec, other files.            *)
(***************************************************************************)
SoundProgram ==
    << 96, 5,      \* 0x200: 6005  V0 = 5
       240, 24 >>  \* 0x202: F018  sound = V0

KeyQueryProgram ==
    << 96, 16,     \* 0x200: 6010  V0 = 0x10
       224, 158 >> \* 0x202: E09E  skip if key V0 is pressed

KeyNotQueryProgram ==
    << 97, 255,    \* 0x200: 61FF  V1 = 0xFF
       225, 161 >> \* 0x202: E1A1  skip if key V1 is not pressed

BcdProgram ==
    << 175, 254,   \* 0x200: AFFE  I = 0xFFE
       240, 51 >>  \* 0x202: F033  bcd of V0 at I, I + 1, I + 2

StoreProgram ==
    << 175, 255,   \* 0x200: AFFF  I = 0xFFF
       241, 85 >>  \* 0x202: F155  store V0, V1 at I, I + 1

LoadRegsProgram ==
    << 175, 255,   \* 0x200: AFFF  I = 0xFFF
       241, 101 >> \* 0x202: F165  load V0, V1 from I, I + 1

DrawPastProgram ==
    << 175, 255,   \* 0x200: AFFF  I = 0xFFF
       208, 18 >>  \* 0x202: D012  draw 2 rows from I, I + 1

IncrementProgram ==
    << 96, 255,    \* 0x200: 60FF  V0 = 0xFF
       175, 255,   \* 0x202: AFFF  I = 0xFFF
       240, 30,    \* 0x204: F01E  I = I + V0
       240, 85 >>  \* 0x206: F055  store V0 at I

JumpEndProgram ==
    << 98, 7,      \* 0x200: 6207  V2 = 7
       31, 255 >>  \* 0x202: 1FFF  jump 0xFFF, where the fetch reads 0xFFF and 0x1000

ErrPrograms ==
    {SoundProgram, KeyQueryProgram, KeyNotQueryProgram, BcdProgram, StoreProgram,
     LoadRegsProgram, DrawPastProgram, IncrementProgram, JumpEndProgram}

InitErr == \E program \in ErrPrograms : MainInit(program)

SpecErr == InitErr /\ [][Next]_vars

\* Pass n decoded Fx18.
IsSetSound(n) ==
    /\ log[n].res /= "FetchErr"
    /\ log[n].instr \div 4096 = 15
    /\ log[n].instr % 256 = 24

\* C14: decoding Fx18 succeeds and copies register x into the sound counter: the
\* pass that decoded it ends Ok, the loop goes on, and with no timer iteration in
\* the behaviour the sound counter is Vx.
C14_SetSound ==
    \A n \in 1..Len(log) :
        IsSetSound(n) =>
            /\ log[n].res = "Ok"
            /\ (n = Len(log) /\ count.ticks = 0) =>
                  /\ status = "running"
                  /\ Timer_get_sound(Unwrap(timer)) =
                         log[n].pre.v[(log[n].instr \div 256) % 16]


\* Pass n decoded an instruction whose memory access reaches an address at or
\* past MEM_SIZE: Fx55 and Fx65 go up to i + x, Fx33 up to i + 2, Dxyn with
\* n > 0 up to i + n - 1.
ReachesPast(n) ==
    LET instr == log[n].instr
        i == log[n].pre.i
    IN  /\ log[n].res /= "FetchErr"
        /\ \/ /\ instr \div 4096 = 15
              /\ instr % 256 \in {85, 101}
              /\ i + ((instr \div 256) % 16) >= MEM_SIZE
           \/ /\ instr \div 4096 = 15
              /\ instr % 256 = 51
              /\ i + 2 >= MEM_SIZE
           \/ /\ instr \div 4096 = 13
              /\ instr % 16 > 0
              /\ i + (instr % 16) - 1 >= MEM_SIZE

\* C18: an instruction whose memory access reaches an address >= 4096 fails with
\* an error that decode returns: the pass ends with Err, the main loop breaks and
\* the process exits through exit(1); the process never aborts.
C18_OutOfBounds ==
    /\ status /= "panicked"
    /\ \A n \in {Len(log)} \ {0} :
          ReachesPast(n) => log[n].res = "Err" /\ status = "exited"

\* Pass n decoded Ex9E or ExA1 with register x above 0xF.
IsBadKeyQuery(n) ==
    /\ log[n].res /= "FetchErr"
    /\ log[n].instr \div 4096 = 14
    /\ log[n].instr % 256 \in {158, 161}
    /\ log[n].pre.v[(log[n].instr \div 256) % 16] > 15

\* C20: a key query with a key code above 0xF is rejected without ending the
\* main loop or the process: after the pass that decoded Ex9E or ExA1 with such
\* a register x, the process is still running.
C20_InvalidKeyNotFatal ==
    \A n \in {Len(log)} \ {0} : IsBadKeyQuery(n) => status = "running"



\* C22: the main loop repeats fetch then decode, and the first error either of
\* them returns ends it: every pass before the last one ended Ok, a pass that
\* ended with an error of fetch or decode is the last pass of the behaviour,
\* and the process has left through exit(1); a fetch that failed decoded
\* nothing and left the Cpu as it was.
C22_LoopEndsOnError ==
    \A n \in 1..Len(log) :
        /\ n < Len(log) => log[n].res = "Ok"
        /\ log[n].res \in {"Err", "FetchErr"} =>
              /\ n = Len(log)
              /\ status = "exited"
        /\ log[n].res = "FetchErr" => cpu = log[n].pre

\* The loop was left on an error of decode after passes that went well.
C22_Witness ==
    /\ Len(log) >= 2
    /\ log[Len(log)].res = "Err"
    /\ log[1].res = "Ok"
    /\ status = "exited"

\* The loop was left on an error of fetch after passes that went well.
C22_WitnessFetch ==
    /\ Len(log) >= 2
    /\ log[Len(log)].res = "FetchErr"
    /\ status = "exited"

(***************************************************************************)
(* main with a program file that load_program refuses                      *)
(***************************************************************************)
\* Program files one byte and many bytes longer than the space from
\* PROGRAM_ADDRESS to the end of the memory.
LargePrograms ==
    { [k \in 1..(MEM_SIZE - PROGRAM_ADDRESS + 1) |-> (k * 5 + 1) % 256],
      [k \in 1..MEM_SIZE |-> 8] }

InitTooLarge ==
    /\ \A program \in LargePrograms : load_program(MemoryNew, program).res = "Err"
    /\ \E program \in LargePrograms : MainInit(program)

SpecTooLarge == InitTooLarge /\ [][Next]_vars

\* C19: when load_program fails at startup, main halts before interpretation
\* starts: no pass of the main loop fetches or decodes an instruction.
C19_NoFetchAfterFailedLoad == log = << >>

(***************************************************************************)
(* A Timer with its Audio device (Timer::new(false)): set_delay, set_sound  *)
(* and the iterations of its thread.  Audio::new opens the device and       *)
(* does not start it.                                                       *)
(***************************************************************************)
InitAudio ==
    /\ cpu = CpuNew
    /\ mem = NoneOpt
    /\ disp = NoneOpt
    /\ timer = Some(TimerNew)
    /\ audio = "stopped"
    /\ status = "running"
    /\ log = << >>
    /\ count = [cycles |-> 0, ticks |-> 0, events |-> 0]
    /\ threads = ThreadsNew

SpecAudio == InitAudio /\ [][NextTimer]_vars

\* The Audio device after call n of the log.
AudioAfter(n) == IF n < Len(log) THEN log[n + 1].audio ELSE audio

\* C15: at the end of every iteration the Audio device was told to start if the
\* sound counter, after 1 was taken from it, is above 0, and to stop otherwise;
\* no iteration ends with the device started and the sound counter at 0.
C15_AudioGate ==
    \A n \in 1..Len(log) :
        log[n].op = "one_iteration" =>
            /\ TimerAfter(n).sound = Countdown(log[n].before.sound)
            /\ AudioAfter(n) =
                  IF TimerAfter(n).sound > 0 THEN "started" ELSE "stopped"
            /\ ~(AudioAfter(n) = "started" /\ Timer_get_sound(TimerAfter(n)) = 0)

\* C15's case: set_sound(2), an iteration that started the device with the
\* counter at 1, and an iteration that found it started and stopped it.
C15_Witness ==
    \E n \in 1..Len(log) :
        /\ n + 2 <= Len(log)
        /\ log[n].op = "set_sound" /\ log[n].val = 2
        /\ log[n + 1].op = "one_iteration" /\ log[n + 2].op = "one_iteration"
        /\ log[n + 1].audio = "stopped"
        /\ AudioAfter(n + 1) = "started" /\ TimerAfter(n + 1).sound = 1
        /\ AudioAfter(n + 2) = "stopped" /\ TimerAfter(n + 2).sound = 0

(***************************************************************************)
(* The three threads step by step, one step for each lock() and each drop   *)
(* of a guard.  A lock() waits until the Mutex is free.  threads.held[a] is  *)
(* the guards thread a holds, the latest last; guards are dropped in the     *)
(* reverse of the order they were taken.                                    *)
(***************************************************************************)
Holds(a, m) == \E k \in 1..Len(threads.held[a]) : threads.held[a][k] = m

Free(m) == \A a \in Agents : ~Holds(a, m)

\* Thread a goes to position to with the guards held.
Move(a, to, held) == [threads EXCEPT !.at[a] = to, !.held[a] = held]

DropLast(h) == SubSeq(h, 1, Len(h) - 1)

\* The events the host sends to the window: key 1 pressed, key 1 released, and
\* an event that is not a KeyboardInput.
HostEvents ==
    {[kind |-> "KeyboardInput", scan_code |-> 2, state |-> "Pressed"],
     [kind |-> "KeyboardInput", scan_code |-> 2, state |-> "Released"],
     [kind |-> "Other", scan_code |-> 0, state |-> "Released"]}

InitThreads == MainInit(KeyWaitProgram)

\* The host sends an event to the window.
HostEvent ==
    /\ Len(threads.pending) < MaxPending
    /\ \E e \in HostEvents :
          threads' = [threads EXCEPT !.pending = Append(@, e)]
    /\ UNCHANGED <<cpu, mem, disp, timer, audio, status, log, count>>

\* main in a handler that locks one Mutex: Timer::get_delay (delay),
\* Display::clear (buf), Display::get_key_state (keys_state).
CpuLock ==
    /\ threads.at["cpu"] = "idle"
    /\ \E m \in {"delay", "buf", "keys_state"} :
          /\ Free(m)
          /\ threads' = Move("cpu", "locked", << m >>)
    /\ UNCHANGED <<cpu, mem, disp, timer, audio, status, log, count>>

\* A handler that returns with its guard leaked: the mutex stays locked.
CpuUnlock_keep_guard ==
    /\ threads.at["cpu"] = "locked"
    /\ threads' = Move("cpu", "idle", threads.held["cpu"])
    /\ UNCHANGED <<cpu, mem, disp, timer, audio, status, log, count>>

\* The handler returns: its guard is dropped.
CpuUnlock ==
    /\ threads.at["cpu"] = "locked"
    /\ threads' = Move("cpu", "idle", << >>)
    /\ UNCHANGED <<cpu, mem, disp, timer, audio, status, log, count>>

\* Timer::one_iteration: delay.lock() and the decrement of delay.
TimerLockDelay ==
    /\ threads.at["timer"] = "sleep"
    /\ Free("delay")
    /\ threads' = Move("timer", "has_delay", << "delay" >>)
    /\ timer' = Some([Unwrap(timer) EXCEPT !.delay = Countdown(@)])
    /\ UNCHANGED <<cpu, mem, disp, audio, status, log, count>>

\* sound.lock(), the guard of delay still alive, and the decrement of sound.
TimerLockSound ==
    /\ threads.at["timer"] = "has_delay"
    /\ Free("sound")
    /\ threads' = Move("timer", "has_sound", Append(threads.held["timer"], "sound"))
    /\ timer' = Some([Unwrap(timer) EXCEPT !.sound = Countdown(@)])
    /\ UNCHANGED <<cpu, mem, disp, audio, status, log, count>>

\* audio.as_ref().unwrap().lock()
TimerLockAudio ==
    /\ threads.at["timer"] = "has_sound"
    /\ audio /= None
    /\ Free("audio")
    /\ threads' = Move("timer", "has_audio", Append(threads.held["timer"], "audio"))
    /\ UNCHANGED <<cpu, mem, disp, timer, audio, status, log, count>>

\* start() or stop(); the guard of audio is dropped at the end of the statement.
TimerSignal ==
    /\ threads.at["timer"] = "has_audio"
    /\ audio' = IF Unwrap(timer).sound > 0 THEN "started" ELSE "stopped"
    /\ threads' = Move("timer", "signalled", DropLast(threads.held["timer"]))
    /\ UNCHANGED <<cpu, mem, disp, timer, status, log, count>>

\* one_iteration returns: the guards of sound and delay are dropped; the sleep.
TimerReturn ==
    /\ \/ threads.at["timer"] = "signalled"
       \/ threads.at["timer"] = "has_sound" /\ audio = None
    /\ threads' = Move("timer", "sleep", << >>)
    /\ UNCHANGED <<cpu, mem, disp, timer, audio, status, log, count>>

\* Display::thread_loop: window_mutex.lock()
DisplayLockWindow ==
    /\ threads.at["display"] = "sleep"
    /\ threads.frames < MaxFrames
    /\ Free("window")
    /\ threads' = Move("display", "has_window", << "window" >>)
    /\ UNCHANGED <<cpu, mem, disp, timer, audio, status, log, count>>

\* A display thread that reads buf without waiting for its mutex.
DisplayLockBuf_no_wait ==
    /\ threads.at["display"] = "has_window"
    /\ threads' = Move("display", "has_buf", Append(threads.held["display"], "buf"))
    /\ UNCHANGED <<cpu, mem, disp, timer, audio, status, log, count>>

\* disp.buf.lock(), in the argument of set_image.
DisplayLockBuf ==
    /\ threads.at["display"] = "has_window"
    /\ Free("buf")
    /\ threads' = Move("display", "has_buf", Append(threads.held["display"], "buf"))
    /\ UNCHANGED <<cpu, mem, disp, timer, audio, status, log, count>>

\* window.set_image: the frame is pushed, the guard of buf is dropped, and
\* handle_window_events is entered with the events pending now.
DisplaySetImage ==
    /\ threads.at["display"] = "has_buf"
    /\ threads' = [Move("display", "pushed", DropLast(threads.held["display"]))
                      EXCEPT !.frames = @ + 1,
                             !.atpush = Len(threads.pending),
                             !.applied = 0]
    /\ UNCHANGED <<cpu, mem, disp, timer, audio, status, log, count>>

\* handle_window_events: the one recv() on the channel, which waits for an
\* event.
DisplayRecv ==
    /\ threads.at["display"] = "pushed"
    /\ threads.pending /= << >>
    /\ threads' = [Move("display", "received", threads.held["display"])
                      EXCEPT !.event = Some(Head(threads.pending)),
                             !.pending = Tail(@)]
    /\ UNCHANGED <<cpu, mem, disp, timer, audio, status, log, count>>

\* An event that is not a KeyboardInput, or whose scancode is in no arm of
\* scancode_to_key: nothing to lock.
DisplayIgnore ==
    /\ threads.at["display"] = "received"
    /\ \/ Unwrap(threads.event).kind /= "KeyboardInput"
       \/ scancode_to_key(Unwrap(threads.event).scan_code).res = "Err"
    /\ threads' = [Move("display", "handled", threads.held["display"])
                      EXCEPT !.applied = @ + 1]
    /\ UNCHANGED <<cpu, mem, disp, timer, audio, status, log, count>>

\* set_key_state: disp.keys_state.lock()
DisplayLockKeys ==
    /\ threads.at["display"] = "received"
    /\ Unwrap(threads.event).kind = "KeyboardInput"
    /\ scancode_to_key(Unwrap(threads.event).scan_code).res = "Ok"
    /\ Free("keys_state")
    /\ threads' = Move("display", "has_keys",
                       Append(threads.held["display"], "keys_state"))
    /\ UNCHANGED <<cpu, mem, disp, timer, audio, status, log, count>>

\* set_key_state: the insert, and the guard of keys_state dropped.
DisplaySetKey ==
    /\ threads.at["display"] = "has_keys"
    /\ disp' = Some(set_key_state(Unwrap(disp), Unwrap(threads.event).scan_code,
                                  Unwrap(threads.event).state).disp)
    /\ threads' = [Move("display", "handled", DropLast(threads.held["display"]))
                      EXCEPT !.applied = @ + 1]
    /\ UNCHANGED <<cpu, mem, timer, audio, status, log, count>>

\* The for loop over the one channel ends, the guard of window is dropped; the
\* sleep.
DisplayUnlock ==
    /\ threads.at["display"] = "handled"
    /\ threads' = [Move("display", "sleep", << >>) EXCEPT !.event = NoneOpt]
    /\ UNCHANGED <<cpu, mem, disp, timer, audio, status, log, count>>

NextThreads ==
    \/ HostEvent
    \/ CpuLock \/ CpuUnlock
    \/ TimerLockDelay \/ TimerLockSound \/ TimerLockAudio \/ TimerSignal
    \/ TimerReturn
    \/ DisplayLockWindow \/ DisplayLockBuf \/ DisplaySetImage \/ DisplayRecv
    \/ DisplayIgnore \/ DisplayLockKeys \/ DisplaySetKey \/ DisplayUnlock

SpecThreads == InitThreads /\ [][NextThreads]_vars

\* C16: no thread holds two mutexes at the same time.
C16_OneLock == \A a \in Agents : Len(threads.held[a]) <= 1

\* C17: a pass of the display thread pushes the frame and then applies every
\* host event that was pending at that moment before it sleeps again: when the
\* pass is about to drop the window and sleep, it has handled at least as many
\* events as were pending when it pushed the frame.
C17_DrainPending ==
    threads.at["display"] = "handled" => threads.applied >= threads.atpush

(***************************************************************************)
(* decode called once on a Cpu that a program has brought to some state,   *)
(* with the Memory and the Timer of main and with or without a Display.    *)
(***************************************************************************)
\* Instructions decode has no handler for.
UnsupportedInstrs ==
    {0, 1, 225, 239, 291, 4095}
    \cup {11 * 4096 + nnn : nnn \in {0, 291, 4095}}
    \cup {8 * 4096 + x * 256 + 16 + n :
             x \in {0, 15}, n \in {4, 8, 9, 10, 11, 12, 13, 15}}
    \cup {14 * 4096 + x * 256 + nn : x \in {0, 1}, nn \in {0, 157, 159, 160, 162, 255}}
    \cup {15 * 4096 + x * 256 + nn :
             x \in {0, 1}, nn \in {0, 11, 24, 86, 100, 117, 133, 255}}

\* Instructions decode has a handler for.
SupportedInstrs ==
    {224, 238}
    \cup {op * 4096 + nnn : op \in {1, 2, 10}, nnn \in {0, 512, 4095}}
    \cup {op * 4096 + x * 256 + nn : op \in {3, 4}, x \in {0, 1, 15}, nn \in {0, 7, 255}}
    \cup {op * 4096 + x * 256 + y * 16 : op \in {5, 9}, x \in {0, 1, 2}, y \in {0, 1, 2}}
    \cup {op * 4096 + x * 256 + nn : op \in {6, 7, 12}, x \in {0, 15}, nn \in {1, 255}}
    \cup {13 * 4096 + 16 + n : n \in {0, 5}}
    \cup {14 * 4096 + x * 256 + nn : x \in {0, 1}, nn \in {158, 161}}
    \cup {15 * 4096 + x * 256 + nn :
             x \in {0, 1}, nn \in {7, 10, 21, 30, 41, 51, 85, 101}}
    \cup {15 * 4096 + 15 * 256 + 30}

\* The registers (the even ones, the odd ones), the pc with the call stack, the
\* index register and the snapshot of Fx0A that the program left.
DecodeVs == {<<7, 7>>, <<7, 255>>, <<16, 0>>}
DecodeFrames ==
    {[pc |-> 512, stack |-> << >>],
     [pc |-> 514, stack |-> << 516 >>],
     [pc |-> 4094, stack |-> << 516, 1792 >>]}
DecodeIs == {768, 4095, 65530}
DecodePressed == {<< >>, [k \in 0..15 |-> k = 7]}

\* No Display, a new one, and two with keys set: scancode 30 is key 7, 2 is key 1.
DecodeDisplays ==
    {NoneOpt,
     Some(DisplayNew),
     Some(set_key_state(DisplayNew, 30, "Pressed").disp),
     Some(set_key_state(set_key_state(DisplayNew, 30, "Released").disp,
                        2, "Pressed").disp)}

InitDecode ==
    /\ \E vs \in DecodeVs, fr \in DecodeFrames, i \in DecodeIs, pr \in DecodePressed :
          cpu = [pc |-> fr.pc, i |-> i,
                 v |-> [r \in 0..15 |-> IF r % 2 = 0 THEN vs[1] ELSE vs[2]],
                 stack |-> fr.stack, pressed |-> pr]
    /\ mem = Some(MemoryNew)
    /\ disp \in DecodeDisplays
    /\ timer = Some([delay |-> 9, sound |-> 0])
    /\ audio = "stopped"
    /\ status = "running"
    /\ log = << >>
    /\ count = [cycles |-> 0, ticks |-> 0, events |-> 0]
    /\ threads = ThreadsNew

\* cpu.decode(instr, disp, mem, timer), once; the log keeps the Cpu before it,
\* the result and the String of an Err.
DecodeWith(instr) ==
    /\ \E rnd \in DecodeRnds(instr) :
       \E pick \in DecodePicks(cpu, instr, disp) :
          LET r == decode(cpu, instr, disp, mem, timer, rnd, pick)
          IN  /\ cpu' = r.cpu
              /\ mem' = r.mem
              /\ disp' = r.disp
              /\ timer' = r.timer
              /\ status' = StatusAfter(r.res)
              /\ log' = << [pre |-> cpu, instr |-> instr, res |-> r.res,
                            err |-> IF r.res = "Err" THEN decode_err(cpu, instr)
                                    ELSE [text |-> "", digits |-> << >>]] >>
    /\ count' = [count EXCEPT !.cycles = @ + 1]
    /\ UNCHANGED <<audio, threads>>

DecodeUnsupported ==
    /\ Len(log) = 0
    /\ \E instr \in UnsupportedInstrs : DecodeWith(instr)

DecodeSupported ==
    /\ Len(log) = 0
    /\ \E instr \in SupportedInstrs : DecodeWith(instr)

NextDecode == DecodeUnsupported \/ DecodeSupported

SpecDecode == InitDecode /\ [][NextDecode]_vars

\* The value the hexadecimal digits ds stand for.
HexVal(ch) == CHOOSE k \in 0..15 : HexChars[k + 1] = ch

RECURSIVE FromHex(_)
FromHex(ds) ==
    IF ds = << >> THEN 0
    ELSE FromHex(SubSeq(ds, 1, Len(ds) - 1)) * 16 + HexVal(ds[Len(ds)])

\* The instruction decoded is outside the supported set: 0nnn other than 00E0 and
\* 00EE, Bnnn, 8xy_ with a low nibble outside {0,1,2,3,5,6,7,E}, Exnn with a low
\* byte other than 9E and A1, Fxnn with a low byte that has no handler.
OutsideSupported ==
    \/ OpOf = 0 /\ log[1].instr \notin {224, 238}
    \/ OpOf = 11
    \/ OpOf = 8 /\ NOf \notin {0, 1, 2, 3, 5, 6, 7, 14}
    \/ OpOf = 14 /\ NNOf \notin {158, 161}
    \/ OpOf = 15 /\ NNOf \notin {7, 10, 21, 30, 41, 51, 85, 101}

\* decode left the Cpu (pc, i, the registers, the stack) and the memory as they
\* were.
DecodeChangedNothing ==
    /\ cpu = log[1].pre
    /\ mem = Some(MemoryNew)

\* decode failed with an error whose digits are the instruction, and changed
\* nothing.
FailedWithInstr ==
    /\ log[1].res = "Err"
    /\ FromHex(log[1].err.digits) = log[1].instr
    /\ DecodeChangedNothing

\* C23 as claimed: decode returns an error carrying the raw instruction for every
\* instruction outside the supported set, and leaves pc, i, the registers, the
\* stack and the memory unchanged.
C23_AsClaimed ==
    (DoneAlu /\ OutsideSupported) => FailedWithInstr

\* C23: decode returns an error carrying the raw instruction for every 0nnn other
\* than 00E0/00EE, every Bnnn, every 8xy_ and Fxnn without a handler, and for
\* every Exnn other than Ex9E/ExA1 when it is given a Display; without a Display
\* it ignores every Exnn and returns Ok.  Any failing decode, and the ignored
\* Exnn, leave pc, i, the registers, the stack and the memory unchanged.
C23_UnsupportedErr ==
    /\ (DoneAlu /\ OutsideSupported) =>
          IF OpOf = 14 /\ ~IsSome(disp)
          THEN log[1].res = "Ok" /\ DecodeChangedNothing
          ELSE FailedWithInstr
    /\ (DoneAlu /\ log[1].res = "Err") => DecodeChangedNothing

\* An Exnn other than Ex9E/ExA1 was decoded with a Display and failed, the Cpu
\* being one with a call stack.
C23_Witness ==
    /\ DoneAlu
    /\ OutsideSupported
    /\ OpOf = 14
    /\ IsSome(disp)
    /\ log[1].res = "Err"
    /\ log[1].pre.stack /= << >>

\* The instruction decoded is Fx0A and decode had a Display to ask.
IsKeyWait == OpOf = 15 /\ NNOf = 10 /\ IsSome(disp)

\* C24 as claimed: decode never leaves pc lower than it was on entry, except
\* that the key-wait retry of Fx0A lowers it by exactly 2.
C24_AsClaimed ==
    DoneAlu =>
        \/ cpu.pc >= log[1].pre.pc
        \/ IsKeyWait /\ cpu.pc = log[1].pre.pc - 2

\* C24: decode never leaves pc lower than it was on entry, with these
\* exceptions: 1nnn and 2nnn set pc to nnn and 00EE sets it to the address it
\* pops, whatever pc was; Fx0A lowers pc by exactly 2 when no key was released
\* since the stored snapshot and leaves it alone when one was.
C24_PcNotLowered ==
    (DoneAlu /\ log[1].res = "Ok") =>
        IF OpOf \in {1, 2} THEN cpu.pc = log[1].instr % 4096
        ELSE IF log[1].instr = 238
        THEN cpu.pc = log[1].pre.stack[Len(log[1].pre.stack)]
        ELSE IF IsKeyWait
        THEN cpu.pc =
                 IF ReleaseEdges(log[1].pre.pressed,
                                 get_new_key_pressed_state(Unwrap(disp))) = {}
                 THEN log[1].pre.pc - 2
                 ELSE log[1].pre.pc
        ELSE cpu.pc >= log[1].pre.pc

\* Fx0A was decoded with no key released and lowered pc by 2.
C24_Witness ==
    /\ DoneAlu
    /\ IsKeyWait
    /\ log[1].res = "Ok"
    /\ cpu.pc = log[1].pre.pc - 2
    /\ log[1].pre.pressed /= << >>

(***************************************************************************)
(* Calls and returns decoded in a row on one Cpu, as tests::subroutine and  *)
(* tests::return_routine do it and as the program 2200 at 0x200 (a routine  *)
(* that calls itself) makes the main loop do it.                            *)
(***************************************************************************)
InitCalls ==
    /\ cpu = CpuNew
    /\ mem = NoneOpt
    /\ disp = NoneOpt
    /\ timer = NoneOpt
    /\ audio = None
    /\ status = "running"
    /\ log = << >>
    /\ count = [cycles |-> 0, ticks |-> 0, events |-> 0]
    /\ threads = ThreadsNew

\* cpu.decode(instr, None, None, None) for a call or a return; the log is not
\* kept.
DecodeStack(instr) ==
    /\ status = "running"
    /\ count.cycles < MaxCalls
    /\ LET r == decode(cpu, instr, disp, mem, timer, 0, NoKey)
       IN  /\ cpu' = r.cpu
           /\ status' = StatusAfter(r.res)
    /\ count' = [count EXCEPT !.cycles = @ + 1]
    /\ UNCHANGED <<mem, disp, timer, audio, log, threads>>

\* 2200: call 0x200.
DecodeCall ==
    /\ status = "running"
    /\ DecodeStack(2 * 4096 + PROGRAM_ADDRESS)

\* 00EE: return.
DecodeReturn ==
    /\ status = "running"
    /\ DecodeStack(238)

NextCalls == DecodeCall \/ DecodeReturn

SpecCalls == InitCalls /\ [][NextCalls]_vars

\* C25: the call stack never holds more than 16 return addresses.
C25_StackBounded == Len(cpu.stack) <= 16

(***************************************************************************)
(* The key state of a Display on its own, as tests::key_state uses it:      *)
(* set_key_state called on it, get_key_state read from it.                  *)
(***************************************************************************)
\* The scancodes given to set_key_state: those of the table and three others.
KeyScancodes == Scancodes \cup {0, 48, 93}

\* Key codes past 0xF given to get_key_state.
BadKeys == {16, 17, 128, 255}

\* Display::set_key_state(disp, scan_code, state); the log keeps the call, its
\* result and the key state before it.
SetKeyState ==
    /\ Len(log) < MaxKeyOps
    /\ \E scan_code \in KeyScancodes, state \in ElementState :
          LET r == set_key_state(Unwrap(disp), scan_code, state)
          IN  /\ disp' = Some(r.disp)
              /\ log' = Append(log, [scan_code |-> scan_code, state |-> state,
                                     res |-> r.res,
                                     before |-> Unwrap(disp).keys_state])
    /\ UNCHANGED <<cpu, mem, timer, audio, status, count, threads>>

NextKeys == SetKeyState

SpecKeys == InitDraw /\ [][NextKeys]_vars

\* The calls of the log that set key k, and the state the last of them set
\* (released when there is none).
SetsOf(k) ==
    {n \in 1..Len(log) :
        log[n].res = "Ok" /\ scancode_to_key(log[n].scan_code).key = k}

Max(S) == CHOOSE n \in S : \A j \in S : j <= n

LastSet(k) == IF SetsOf(k) = {} THEN FALSE ELSE log[Max(SetsOf(k))].state = "Pressed"

\* What a HashMap holds for key k: "none", or the value.
Held(map, k) == IF k \in DOMAIN map THEN <<map[k]>> ELSE << >>

\* C26: the table maps 16 distinct scancodes onto all 16 keys; set_key_state with
\* a scancode of the table succeeds, stores the state under the mapped key and
\* leaves what is held for the other 15 keys as it was; with any other scancode
\* it fails and stores nothing; get_key_state(k) for k <= 0xF gives the last
\* state set for k, released if none was, and fails for k > 0xF.
C26_KeyState ==
    /\ Cardinality(Scancodes) = 16
    /\ \A sc \in Scancodes : scancode_to_key(sc).res = "Ok"
    /\ {scancode_to_key(sc).key : sc \in Scancodes} = 0..15
    /\ \A n \in {Len(log)} \ {0} :
          LET now == Unwrap(disp).keys_state
              key == scancode_to_key(log[n].scan_code).key
          IN  IF log[n].scan_code \in Scancodes
              THEN /\ log[n].res = "Ok"
                   /\ Held(now, key) = << log[n].state = "Pressed" >>
                   /\ \A k \in (0..255) \ {key} :
                         Held(now, k) = Held(log[n].before, k)
              ELSE /\ log[n].res = "Err"
                   /\ now = log[n].before
    /\ \A k \in 0..15 :
          /\ get_key_state(Unwrap(disp), k).res = "Ok"
          /\ get_key_state(Unwrap(disp), k).val = LastSet(k)
    /\ \A k \in BadKeys : get_key_state(Unwrap(disp), k).res = "Err"

\* Key 1 was pressed and then released, and reads released; key 2 was never set.
C26_Witness ==
    /\ Len(log) = 2
    /\ log[1].scan_code = 2 /\ log[1].state = "Pressed" /\ log[1].res = "Ok"
    /\ log[2].scan_code = 2 /\ log[2].state = "Released" /\ log[2].res = "Ok"
    /\ get_key_state(Unwrap(disp), 1) = [res |-> "Ok", val |-> FALSE]
    /\ 2 \notin DOMAIN Unwrap(disp).keys_state

\* The condition of the skip instruction decoded, on the registers before it.
SkipCondition ==
    IF OpOf = 3 THEN VBefore[XOf] = NNOf
    ELSE IF OpOf = 4 THEN VBefore[XOf] /= NNOf
    ELSE IF OpOf = 5 THEN VBefore[XOf] = VBefore[YOf]
    ELSE VBefore[XOf] /= VBefore[YOf]

\* C27: 3xnn, 4xnn, 5xy0 and 9xy0 add 2 to pc exactly when their condition holds
\* (Vx = nn, Vx /= nn, Vx = Vy, Vx /= Vy) and leave pc alone otherwise; the
\* registers, the index register and the call stack are unchanged either way.
C27_Skip ==
    (DoneAlu /\ OpOf \in {3, 4, 5, 9}) =>
        /\ log[1].res = "Ok"
        /\ cpu.pc = IF SkipCondition THEN log[1].pre.pc + 2 ELSE log[1].pre.pc
        /\ cpu.v = VBefore
        /\ cpu.i = log[1].pre.i
        /\ cpu.stack = log[1].pre.stack

\* 4xnn was decoded with Vx /= nn and skipped, on a Cpu with a call stack.
C27_Witness ==
    /\ DoneAlu
    /\ OpOf = 4
    /\ VBefore[XOf] /= NNOf
    /\ cpu.pc = log[1].pre.pc + 2
    /\ log[1].pre.stack /= << >>

\* Key k is pressed in the key state of the Display: the map holds true for it.
PressedNow(k) ==
    /\ k \in DOMAIN Unwrap(disp).keys_state
    /\ Unwrap(disp).keys_state[k]

\* C28: decoded with a Display and a key code k <= 0xF in register x, Ex9E adds 2
\* to pc if and only if key k is pressed in the key state and ExA1 if and only if
\* it is not (a key never touched is not pressed), and both succeed; with register
\* x above 0xF they fail and pc is unchanged.
C28_KeySkip ==
    (DoneAlu /\ OpOf = 14 /\ NNOf \in {158, 161} /\ IsSome(disp)) =>
        IF VBefore[XOf] <= 15
        THEN /\ log[1].res = "Ok"
             /\ cpu.pc \in {log[1].pre.pc, log[1].pre.pc + 2}
             /\ (cpu.pc = log[1].pre.pc + 2) <=>
                    IF NNOf = 158 THEN PressedNow(VBefore[XOf])
                    ELSE ~PressedNow(VBefore[XOf])
        ELSE /\ log[1].res = "Err"
             /\ cpu.pc = log[1].pre.pc

\* ExA1 was decoded for a key that was never touched, while another key is
\* pressed, and skipped.
C28_Witness ==
    /\ DoneAlu
    /\ OpOf = 14 /\ NNOf = 161
    /\ IsSome(disp)
    /\ VBefore[XOf] <= 15
    /\ VBefore[XOf] \notin DOMAIN Unwrap(disp).keys_state
    /\ Unwrap(disp).keys_state /= << >>
    /\ cpu.pc = log[1].pre.pc + 2

(***************************************************************************)
(* Fx55, Fx65 and Fx33 decoded on a Cpu with a Memory and nothing else, as  *)
(* tests::store, tests::load and tests::bcd call decode.                    *)
(***************************************************************************)
\* The Memory after load_program of a program that fills it.
FilledMemory == load_program(MemoryNew, FillProgram).mem

\* A Cpu whose registers were set (register r to a + 13 r, a of vals) and whose
\* index register is one of is, with a Memory that holds a program.
InitRegs(vals, is) ==
    /\ \E a \in vals, i \in is :
          cpu = [CpuNew EXCEPT !.i = i,
                               !.v = [r \in 0..15 |-> (a + r * 13) % 256]]
    /\ mem = Some(FilledMemory)
    /\ disp = NoneOpt
    /\ timer = NoneOpt
    /\ audio = None
    /\ status = "running"
    /\ log = << >>
    /\ count = [cycles |-> 0, ticks |-> 0, events |-> 0]
    /\ threads = ThreadsNew

\* cpu.decode(instr, None, Some(&mut mem), None); the log keeps the Cpu and the
\* memory before it and the result.
MemOp(instr) ==
    /\ status = "running"
    /\ LET r == decode(cpu, instr, disp, mem, timer, 0, NoKey)
       IN  /\ cpu' = r.cpu
           /\ mem' = r.mem
           /\ status' = StatusAfter(r.res)
           /\ log' = Append(log, [pre |-> cpu, instr |-> instr, res |-> r.res,
                                  before |-> Unwrap(mem)])
    /\ count' = [count EXCEPT !.cycles = @ + 1]
    /\ UNCHANGED <<disp, timer, audio, threads>>

MemXs == {0, 1, 5, 15}

\* The index register: inside the program, with I + 15 the last address, and
\* with I + 5 the last address.
InitMem == InitRegs({0, 200}, {768, 4080, 4090})

DecodeStore ==
    /\ Len(log) < MaxMemOps
    /\ \E x \in MemXs : MemOp(15 * 4096 + x * 256 + 85)

DecodeLoad ==
    /\ Len(log) < MaxMemOps
    /\ \E x \in MemXs : MemOp(15 * 4096 + x * 256 + 101)

NextMem == DecodeStore \/ DecodeLoad

SpecMem == InitMem /\ [][NextMem]_vars

\* Every value of a register, and I with I + 2 inside and past the memory.
InitBcd == InitRegs(0..255, {768, 4093, 4094})

DecodeBcd ==
    /\ Len(log) = 0
    /\ \E x \in {0, 3, 15} : MemOp(15 * 4096 + x * 256 + 51)

NextBcd == DecodeBcd

SpecBcd == InitBcd /\ [][NextBcd]_vars

\* Entry n of the log: Fx55 or Fx65 (low byte nn) with I + x inside the memory.
IsMemOp(n, nn) ==
    /\ log[n].instr \div 4096 = 15
    /\ log[n].instr % 256 = nn
    /\ log[n].pre.i + ((log[n].instr \div 256) % 16) < MEM_SIZE

\* The Cpu after entry n of the log.
CpuPast(n) == IF n < Len(log) THEN log[n + 1].pre ELSE cpu

C30_Bcd ==
    \A n \in {Len(log)} \ {0} :
        LET x == (log[n].instr \div 256) % 16
            pre == log[n].pre
            m == Unwrap(mem)
        IN  (log[n].instr % 256 = 51 /\ pre.i + 2 < MEM_SIZE) =>
                /\ log[n].res = "Ok"
                /\ \A k \in 0..2 : m[pre.i + k] \in 0..9
                /\ 100 * m[pre.i] + 10 * m[pre.i + 1] + m[pre.i + 2] = pre.v[x]
                /\ m = [log[n].before EXCEPT ![pre.i] = m[pre.i],
                                              ![pre.i + 1] = m[pre.i + 1],
                                              ![pre.i + 2] = m[pre.i + 2]]
                /\ cpu = pre

\* Fx33 was decoded for the value 255 of register F, at the last three addresses.
C30_Witness ==
    /\ Len(log) = 1
    /\ log[1].instr = 15 * 4096 + 15 * 256 + 51
    /\ log[1].pre.v[15] = 255
    /\ log[1].pre.i = MEM_SIZE - 3
    /\ Unwrap(mem)[MEM_SIZE - 3] = 2
    /\ Unwrap(mem)[MEM_SIZE - 2] = 5
    /\ Unwrap(mem)[MEM_SIZE - 1] = 5

\* C31: Fx1E sets the index register to I + Vx as a 16-bit value (not reduced to
\* 12 bits) and sets VF to 1 exactly when I + Vx >= 4096; below 4096 VF keeps the
\* value it had.  Nothing else of the Cpu changes.
C31_IncrementI ==
    (DoneAlu /\ OpOf = 15 /\ NNOf = 30) =>
        LET sum == log[1].pre.i + VBefore[XOf]
        IN  /\ log[1].res = "Ok"
            /\ cpu.i = sum % 65536
            /\ cpu.v[15] = IF sum >= 4096 THEN 1 ELSE VBefore[15]
            /\ cpu = [log[1].pre EXCEPT !.i = cpu.i, !.v[15] = cpu.v[15]]

\* Fx1E was decoded with a sum below 4096 and VF kept a value that is not 0 or 1.
C31_Witness ==
    /\ DoneAlu
    /\ OpOf = 15 /\ NNOf = 30
    /\ log[1].pre.i + VBefore[XOf] < 4096
    /\ VBefore[15] = 255
    /\ cpu.v[15] = 255
    /\ cpu.i = log[1].pre.i + VBefore[XOf]

\* Fx1E was decoded with a sum past 4095 that stays a 16-bit value above 12 bits.
C31_WitnessOverflow ==
    /\ DoneAlu
    /\ OpOf = 15 /\ NNOf = 30
    /\ cpu.i = 4095 + 7
    /\ VBefore[15] = 255
    /\ cpu.v[15] = 1

(***************************************************************************)
(* Dxyn decoded on a Cpu with the Memory and the Display of main: the       *)
(* sprite is read by Cpu::get_sprite and drawn by Display::draw.            *)
(***************************************************************************)
\* The registers (the even ones, the odd ones and VF) and the index register:
\* the glyph 0 of the font, the program, and the last five bytes of the memory.
SpriteVs == {<<7, 7>>, <<100, 200>>, <<63, 31>>}
SpriteIs == {FONT_ADDRESS, 768, MEM_SIZE - 5}

\* Dxyn with (x, y) = (0, 1) and n = 0, 5, 15, and with (x, y) = (1, 0), n = 5.
SpriteInstrs == {13 * 4096 + 16 + n : n \in {0, 5, 15}} \cup {13 * 4096 + 256 + 5}

InitSprite ==
    /\ \E vs \in SpriteVs, i \in SpriteIs :
          cpu = [CpuNew EXCEPT !.i = i,
                     !.v = [r \in 0..15 |-> IF r % 2 = 0 THEN vs[1] ELSE vs[2]]]
    /\ mem = Some(FilledMemory)
    /\ disp = Some(DisplayNew)
    /\ timer = NoneOpt
    /\ audio = None
    /\ status = "running"
    /\ log = << >>
    /\ count = [cycles |-> 0, ticks |-> 0, events |-> 0]
    /\ threads = ThreadsNew

\* cpu.decode(instr, Some(&disp), Some(&mut mem), None) for a Dxyn; the log keeps
\* the Cpu and the framebuffer before it and the result.
DecodeDraw ==
    /\ status = "running"
    /\ Len(log) < MaxSprites
    /\ \E instr \in SpriteInstrs :
          LET r == decode(cpu, instr, disp, mem, timer, 0, NoKey)
          IN  /\ cpu' = r.cpu
              /\ mem' = r.mem
              /\ disp' = r.disp
              /\ status' = StatusAfter(r.res)
              /\ log' = Append(log, [pre |-> cpu, instr |-> instr, res |-> r.res,
                                     before |-> Unwrap(disp).buf])
    /\ count' = [count EXCEPT !.cycles = @ + 1]
    /\ UNCHANGED <<timer, audio, threads>>

NextSprite == DecodeDraw

SpecSprite == InitSprite /\ [][NextSprite]_vars

\* C32: with I + n - 1 inside the memory, Dxyn draws at (Vx mod 64, Vy mod 32)
\* the n bytes at I..I+n-1 in that order: the framebuffer is what Display's draw
\* makes of the one before with that origin and those bytes, and VF is the flag
\* it returns, which is 1 exactly when a lit pixel went dark; I, the memory, pc,
\* the stack and the other registers are unchanged; Dxy0 changes no pixel and
\* sets VF to 0.
C32_Draw ==
    \A l \in {Len(log)} \ {0} :
        LET pre == log[l].pre
            n == log[l].instr % 16
            x == pre.v[(log[l].instr \div 256) % 16] % WIDTH
            y == pre.v[(log[l].instr \div 16) % 16] % HEIGHT
            bytes == [k \in 1..n |-> FilledMemory[pre.i + k - 1]]
            drawn == update_buf_sprite(log[l].before, x, y, bytes)
            buf == Unwrap(disp).buf
        IN  (n = 0 \/ pre.i + n - 1 < MEM_SIZE) =>
                /\ log[l].res = "Ok"
                /\ buf = drawn.buf
                /\ cpu.v[15] = drawn.vf
                /\ cpu.v[15] = IF \E p \in DOMAIN buf :
                                     log[l].before[p] = ON_PIXEL /\ buf[p] = OFF_PIXEL
                               THEN 1 ELSE 0
                /\ cpu = [pre EXCEPT !.v[15] = cpu.v[15]]
                /\ mem = Some(FilledMemory)
                /\ n = 0 => buf = log[l].before /\ cpu.v[15] = 0

\* The glyph 0 was drawn twice at (100 mod 64, 200 mod 32) = (36, 8): the second
\* draw found its own pixels lit, returned 1 and left the screen dark again.
C32_Witness ==
    /\ Len(log) = 2
    /\ log[1].instr = 13 * 4096 + 16 + 5
    /\ log[2].instr = 13 * 4096 + 16 + 5
    /\ log[1].pre.i = FONT_ADDRESS
    /\ log[1].pre.v[0] = 100 /\ log[1].pre.v[1] = 200
    /\ log[2].before[WIDTH * 8 + 36] = ON_PIXEL
    /\ log[2].pre.v[15] = 0
    /\ cpu.v[15] = 1
    /\ Unwrap(disp).buf = DisplayNew.buf

\* ---------------------------------------------------------------------------
\* The key wait beside the input thread: the main loop runs Fx0A again and
\* again while Display::handle_window_events applies the key events of the host.
\* ---------------------------------------------------------------------------

\* The scancodes of keys 1 and 2.
WaitScancodes == {2, 3}

InitKeyWait == MainInit(KeyWaitProgram)

\* One KeyboardInput event applied by Display::set_key_state between two passes
\* of the main loop; the log keeps the scancode and the state.
KeyInput ==
    /\ status = "running"
    /\ count.events < MaxEvents
    /\ \E scan_code \in WaitScancodes, state \in ElementState :
          LET r == set_key_state(Unwrap(disp), scan_code, state)
          IN  /\ disp' = Some(r.disp)
              /\ log' = Append(log, [pre |-> cpu, instr |-> scan_code,
                                     keys |-> get_new_key_pressed_state(r.disp),
                                     res |-> state])
    /\ count' = [count EXCEPT !.events = @ + 1]
    /\ UNCHANGED <<cpu, mem, timer, audio, status, threads>>

\* A pass of the main loop beside the key events.
WaitCycle ==
    /\ count.cycles < MaxCycles
    /\ CpuCycle

NextKeyWait == WaitCycle \/ KeyInput

SpecKeyWait == InitKeyWait /\ [][NextKeyWait]_vars

\* Entry n of the log is a key event of the given state.
IsKeyInput(n, state) ==
    /\ log[n].res = state
    /\ log[n].instr \in WaitScancodes

\* The last four entries of the log are: an Fx0A that went on waiting, a press of
\* a key, the release of the same key, and the next Fx0A.
TapBetweenSamples(n) ==
    /\ n >= 4
    /\ IsGetKey(n - 3)
    /\ Released(n - 3) = {}
    /\ IsKeyInput(n - 2, "Pressed")
    /\ IsKeyInput(n - 1, "Released")
    /\ log[n - 1].instr = log[n - 2].instr
    /\ IsGetKey(n)

\* C33: a key pressed and released between two consecutive Fx0A passes of a
\* waiting Cpu is not lost: the pass after the release ends the wait with the key
\* in register x, or at least keeps the key in the stored snapshot so that a
\* later pass can report it.
C33_TapNotLost ==
    \A n \in {Len(log)} :
        TapBetweenSamples(n) =>
            LET x == (log[n].instr \div 256) % 16
                key == scancode_to_key(log[n - 1].instr).key
            IN  \/ /\ cpu.v[x] = key
                   /\ cpu.pc = log[n].pre.pc + 2
                \/ /\ key \in DOMAIN cpu.pressed
                   /\ cpu.pressed[key]

\* ---------------------------------------------------------------------------
\* The three threads and their mutexes, with the wait of main for a mutex made
\* a position of its own.
\* ---------------------------------------------------------------------------

\* The mutexes main locks: Timer::get_delay and set_delay (delay), Display::draw
\* and clear (buf), Display::get_key_state (keys_state).
CpuLocks == {"delay", "buf", "keys_state"}

WantPosition(m) ==
    CASE m = "delay" -> "want_delay"
      [] m = "buf" -> "want_buf"
      [] m = "keys_state" -> "want_keys_state"

\* main enters a handler that locks a mutex and calls lock().
CpuRequest ==
    /\ threads.at["cpu"] = "idle"
    /\ \E m \in CpuLocks : threads' = Move("cpu", WantPosition(m), << >>)
    /\ UNCHANGED <<cpu, mem, disp, timer, audio, status, log, count>>

\* lock() returns the guard to main.
CpuAcquire ==
    /\ \E m \in CpuLocks :
          /\ threads.at["cpu"] = WantPosition(m)
          /\ Free(m)
          /\ threads' = Move("cpu", "locked", << m >>)
    /\ UNCHANGED <<cpu, mem, disp, timer, audio, status, log, count>>

\* handle_window_events: the host sends an event and the recv() that waited for it
\* returns it.
DisplayRecvSent ==
    /\ threads.at["display"] = "pushed"
    /\ threads.pending = << >>
    /\ \E e \in HostEvents :
          threads' = [Move("display", "received", threads.held["display"])
                         EXCEPT !.event = Some(e)]
    /\ UNCHANGED <<cpu, mem, disp, timer, audio, status, log, count>>

NextLocks ==
    \/ CpuRequest \/ CpuAcquire \/ CpuUnlock
    \/ TimerLockDelay \/ TimerLockSound \/ TimerLockAudio \/ TimerSignal
    \/ TimerReturn
    \/ DisplayLockWindow \/ DisplayLockBuf \/ DisplaySetImage \/ DisplayRecvSent
    \/ DisplayIgnore \/ DisplayLockKeys \/ DisplaySetKey \/ DisplayUnlock

\* A thread that holds guards and can go on does go on; a thread in lock() gets
\* the mutex if the mutex is free again and again: the threads that take the
\* same mutex sleep between their passes (1400 us, 16666 us) with no guard held.
FairLocks ==
    /\ WF_vars(CpuUnlock)
    /\ WF_vars(TimerSignal)
    /\ WF_vars(TimerReturn)
    /\ WF_vars(DisplaySetImage)
    /\ WF_vars(DisplayIgnore)
    /\ WF_vars(DisplaySetKey)
    /\ WF_vars(DisplayUnlock)
    /\ SF_vars(CpuAcquire)
    /\ SF_vars(TimerLockDelay)
    /\ SF_vars(TimerLockSound)
    /\ SF_vars(TimerLockAudio)
    /\ SF_vars(DisplayLockWindow)
    /\ SF_vars(DisplayLockBuf)
    /\ SF_vars(DisplayLockKeys)

SpecLocks == InitThreads /\ [][NextLocks]_vars /\ FairLocks

\* The mutex the next statement of thread a locks, if it is a lock().
Wanted(a) ==
    LET at == threads.at[a]
    IN  CASE a = "cpu" -> {m \in CpuLocks : at = WantPosition(m)}
          [] a = "timer" ->
                IF at = "sleep" THEN {"delay"}
                ELSE IF at = "has_delay" THEN {"sound"}
                ELSE IF at = "has_sound" /\ audio /= None THEN {"audio"}
                ELSE {}
          [] a = "display" ->
                IF at = "sleep" /\ threads.frames < MaxFrames THEN {"window"}
                ELSE IF at = "has_window" THEN {"buf"}
                ELSE IF /\ at = "received"
                        /\ Unwrap(threads.event).kind = "KeyboardInput"
                        /\ scancode_to_key(Unwrap(threads.event).scan_code).res = "Ok"
                     THEN {"keys_state"}
                ELSE {}

\* The lock() calls of the code: the thread and the mutex.
LockCalls ==
    ({"cpu"} \X CpuLocks)
        \cup ({"timer"} \X {"delay", "sound", "audio"})
        \cup ({"display"} \X {"window", "buf", "keys_state"})

\* Thread a is in lock() on a mutex thread b holds.
WaitsFor(a, b) == \E m \in Wanted(a) : Holds(b, m)

\* Threads wait for each other in a cycle: one for a mutex it holds itself, two
\* for each other, or the three in a ring.
LockCycle ==
    \/ \E a \in Agents : WaitsFor(a, a)
    \/ \E a, b \in Agents : a /= b /\ WaitsFor(a, b) /\ WaitsFor(b, a)
    \/ \E a, b, c \in Agents :
          /\ a /= b /\ b /= c /\ a /= c
          /\ WaitsFor(a, b) /\ WaitsFor(b, c) /\ WaitsFor(c, a)

RenderCalls ==
    {[op |-> "draw", x |-> 8, y |-> 4, sprite |-> GlyphF],
     [op |-> "draw", x |-> 60, y |-> 30, sprite |-> << 255, 129, 255 >>],
     [op |-> "clear", x |-> 0, y |-> 0, sprite |-> << >>]}

\* The threads with the call main is in: its arguments, the index i of the loop
\* and the vf of update_buf_sprite.
InitRender ==
    /\ cpu = CpuNew
    /\ mem = NoneOpt
    /\ disp = Some(DisplayNew)
    /\ timer = NoneOpt
    /\ audio = None
    /\ status = "running"
    /\ log = << >>
    /\ count = [cycles |-> 0, ticks |-> 0, events |-> 0]
    /\ threads = [at |-> ThreadsNew.at, held |-> ThreadsNew.held,
                  pending |-> << >>, event |-> NoneOpt, frames |-> 0,
                  atpush |-> 0, applied |-> 0, call |-> NoneOpt]

\* update_buf_sprite or clear_buf: buf.lock()
RenderLock ==
    /\ threads.at["cpu"] = "idle"
    /\ count.cycles < MaxDraws
    /\ Free("buf")
    /\ \E c \in RenderCalls :
          threads' = [Move("cpu", c.op, << "buf" >>) EXCEPT
                         !.call = Some([op |-> c.op, x |-> c.x, y |-> c.y,
                                        sprite |-> c.sprite, i |-> 0, vf |-> 0,
                                        before |-> Unwrap(disp).buf])]
    /\ count' = [count EXCEPT !.cycles = @ + 1]
    /\ UNCHANGED <<cpu, mem, disp, timer, audio, status, log>>

\* update_buf_sprite: one pass of the outer loop, the row i of the sprite.
DrawRow ==
    /\ threads.at["cpu"] = "draw"
    /\ LET c == Unwrap(threads.call)
       IN  /\ c.i < Len(c.sprite)
           /\ c.y + c.i /= HEIGHT
           /\ LET row == BitLoop([buf |-> Unwrap(disp).buf, vf |-> c.vf],
                                 c.x, c.y + c.i, c.sprite[c.i + 1], 0)
              IN  /\ disp' = Some([Unwrap(disp) EXCEPT !.buf = row.buf])
                  /\ threads' = [threads EXCEPT
                                    !.call = Some([c EXCEPT !.i = @ + 1,
                                                            !.vf = row.vf])]
    /\ UNCHANGED <<cpu, mem, timer, audio, status, log, count>>

\* clear_buf: the loop over the pixels, the upper half of the buffer in one step
\* and the lower half in the next.
ClearHalf ==
    /\ threads.at["cpu"] = "clear"
    /\ LET c == Unwrap(threads.call)
           buf == Unwrap(disp).buf
           half == (WIDTH * HEIGHT) \div 2
       IN  /\ c.i < 2
           /\ disp' = Some([Unwrap(disp) EXCEPT !.buf =
                               [p \in DOMAIN buf |->
                                   IF p \div half = c.i THEN 0 ELSE buf[p]]])
           /\ threads' = [threads EXCEPT !.call = Some([c EXCEPT !.i = @ + 1])]
    /\ UNCHANGED <<cpu, mem, timer, audio, status, log, count>>

\* The loop is over: the call returns, the guard of buf is dropped, and
\* handle_draw stores vf in VF.
RenderReturn ==
    /\ LET c == Unwrap(threads.call)
       IN  /\ \/ /\ threads.at["cpu"] = "draw"
                 /\ (c.i >= Len(c.sprite) \/ c.y + c.i = HEIGHT)
                 /\ cpu' = [cpu EXCEPT !.v[15] = c.vf]
              \/ /\ threads.at["cpu"] = "clear"
                 /\ c.i >= 2
                 /\ cpu' = cpu
           /\ log' = Append(log, [kind |-> "call", op |-> c.op, x |-> c.x,
                                  y |-> c.y, sprite |-> c.sprite, vf |-> c.vf,
                                  before |-> c.before,
                                  buf |-> Unwrap(disp).buf])
    /\ threads' = [Move("cpu", "idle", << >>) EXCEPT !.call = NoneOpt]
    /\ UNCHANGED <<mem, disp, timer, audio, status, count>>

\* window.set_image: the frame is pushed as buf is now, and the guard of buf is
\* dropped; the log keeps the frame and the call main is in.
RenderSetImage ==
    /\ threads.at["display"] = "has_buf"
    /\ threads' = [Move("display", "pushed", DropLast(threads.held["display"]))
                      EXCEPT !.frames = @ + 1]
    /\ log' = Append(log, [kind |-> "frame", buf |-> Unwrap(disp).buf,
                           during |-> threads.call])
    /\ UNCHANGED <<cpu, mem, disp, timer, audio, status, count>>

\* handle_window_events returns, the guard of window is dropped; the sleep.
RenderSleep ==
    /\ threads.at["display"] = "pushed"
    /\ threads' = Move("display", "sleep", << >>)
    /\ UNCHANGED <<cpu, mem, disp, timer, audio, status, log, count>>

NextRender ==
    \/ RenderLock \/ DrawRow \/ ClearHalf \/ RenderReturn
    \/ DisplayLockWindow \/ DisplayLockBuf \/ RenderSetImage \/ RenderSleep

SpecRender == InitRender /\ [][NextRender]_vars

\* The buffer as the last call that returned before entry n of the log left it;
\* the buffer of Display::new if none did.
BufOfLastCall(n) ==
    LET calls == {j \in 1..(n - 1) : log[j].kind = "call"}
    IN  IF calls = {} THEN DisplayNew.buf
        ELSE log[CHOOSE j \in calls : \A q \in calls : q <= j].buf

\* C35: every frame the display thread pushes is the buffer as a complete draw
\* or clear left it (or as Display::new made it): no call is under way when the
\* frame is taken, and a call that returned had made of the buffer it found what
\* update_buf_sprite or clear_buf make of it in one piece.
C35_FramesWhole ==
    \A n \in {Len(log)} \ {0} :
        /\ log[n].kind = "frame" =>
              /\ log[n].buf = BufOfLastCall(n)
              /\ log[n].during = NoneOpt
        /\ log[n].kind = "call" =>
              log[n].buf =
                  IF log[n].op = "clear" THEN clear_buf(log[n].before)
                  ELSE update_buf_sprite(log[n].before, log[n].x, log[n].y,
                                         log[n].sprite).buf

\* C35's case: the display thread pushed a frame, main then completed a call
\* that left pixels ON, and the frame pushed after that call shows them.
C35_Witness ==
    /\ Len(log) >= 3
    /\ log[Len(log)].kind = "frame"
    /\ log[Len(log) - 1].kind = "call"
    /\ log[Len(log)].buf /= DisplayNew.buf
    /\ \E j \in 1..(Len(log) - 1) : log[j].kind = "frame"

\* ---------------------------------------------------------------------------
\* The program counter at the ends of memory: programs of the largest size
\* load_program takes, whose last instruction is at 0xFFE, and a program that
\* moves itself to address 0.
\* ---------------------------------------------------------------------------

\* The instructions at 0xFFE: the four skips on registers (V0 is 0), the two on
\* keys, the key wait, a call of 0xFFE itself, a return and a jump to 0.
EdgeInstrs ==
    {3 * 4096, 4 * 4096, 5 * 4096, 9 * 4096,
     14 * 4096 + 158, 14 * 4096 + 161, 15 * 4096 + 10,
     2 * 4096 + 4094, 238, 4096}

\* 0x200: 1FFE  jump 0xFFE; zeros; 0xFFE: instr.
EdgeProgram(instr) ==
    [k \in 1..(MEM_SIZE - PROGRAM_ADDRESS) |->
        IF k = 1 THEN 31
        ELSE IF k = 2 THEN 254
        ELSE IF k = MEM_SIZE - PROGRAM_ADDRESS - 1 THEN instr \div 256
        ELSE IF k = MEM_SIZE - PROGRAM_ADDRESS THEN instr % 256
        ELSE 0]

LowWaitProgram ==
    << 96, 240,    \* 0x200: 60F0  V0 = 0xF0
       97, 10,     \* 0x202: 610A  V1 = 0x0A
       160, 0,     \* 0x204: A000  I = 0
       241, 85,    \* 0x206: F155  store V0..V1 at 0: F00A
       16, 0 >>    \* 0x208: 1000  jump 0, where V0 = key waits

PcPrograms == {EdgeProgram(instr) : instr \in EdgeInstrs} \cup {LowWaitProgram}

InitPc == \E program \in PcPrograms : MainInit(program)

\* The main loop and the key events; the timer thread has no part in pc.
NextPc == CpuCycle \/ InputEvent

SpecPc == InitPc /\ [][NextPc]_vars

\* C36: pc stays within 0..0x1002: a fetch that succeeds starts at 0xFFE at the
\* most and leaves pc at 0x1000 at the most, so that neither pc + 1 and pc + 2 in
\* fetch nor the pc + 2 of a skip passes 0x1002, far below 0xFFFF; and the pc - 2
\* of a key wait, taken after the pc + 2 of the fetch, does not go below 0.
C36_PcBounds ==
    /\ cpu.pc \in 0..(MEM_SIZE + 2)
    /\ \A n \in {Len(log)} \ {0} :
          /\ log[n].pre.pc \in 0..(MEM_SIZE + 2)
          /\ log[n].res /= "FetchErr" =>
                /\ log[n].pre.pc + 2 <= MEM_SIZE
                /\ cpu.pc >= 0
                /\ cpu.pc <= MEM_SIZE + 2

\* C36's case: the skip at 0xFFE was taken and pc is 0x1002.
C36_Witness ==
    /\ log /= << >>
    /\ log[Len(log)].pre.pc = MEM_SIZE - 2
    /\ log[Len(log)].res = "Ok"
    /\ cpu.pc = MEM_SIZE + 2

\* A key wait at address 0 went on waiting: pc came back from 2 to 0.
C36_WitnessRewind ==
    /\ log /= << >>
    /\ IsGetKey(Len(log))
    /\ log[Len(log)].pre.pc = 0
    /\ cpu.pc = 0

====
